---- MODULE Spec2Model ----
(***************************************************************************)
(* The 3D stowage engine of the cargo management system: the occupancy     *)
(* grid (SpatialGrid), the orientation set, the visibility / blocking      *)
(* engine (EnhancedSpatialGrid) and the container bookkeeping (Container). *)
(* Coordinates are 0-based as in the source.  A nullable JavaScript value  *)
(* is a sequence of length 0 (null / undefined) or 1.                      *)
(***************************************************************************)
EXTENDS Integers, Sequences, FiniteSets, TLC

VARIABLES
  dimensions,     \* SpatialGrid.dimensions
  openFace,       \* EnhancedSpatialGrid.openFace
  grid,           \* SpatialGrid.grid : cell -> item id or null
  itemsData,      \* EnhancedSpatialGrid.itemsData (a Map, in insertion order)
  usedVolume,     \* Container.usedVolume
  priorityItems,  \* Container.priorityItems {high, medium, low}
  itemsByExpiry,  \* Container.itemsByExpiry : day string -> set of ids
  accessHistory,  \* Container.accessHistory
  tempState,      \* Container._tempState: the grid saved by temporarilyOccupySpace
  last,           \* the last call made on the container and what it returned
  preGrid,        \* the grid as it was before the last call
  itemObjects,    \* the objects of class Item (models/Item.ts), in creation order
  pending,        \* the ids a caller retrieving an item has still to extract:
                  \* the target first, the item it asks for next last
  component       \* the state of the Search or Retrieve component on screen,
                  \* with the handler invocations suspended at their await

vars == <<dimensions, openFace, grid, itemsData, usedVolume, priorityItems,
          itemsByExpiry, accessHistory, tempState, last, preGrid, itemObjects,
          pending, component>>

----------------------------------------------------------------------------
(* Bounds of the model *)

\* the greatest usage limit of an item, and the uses made of an item that
\* has no limit
MaxUsageLimit == 3

\* the copies made of an item
MaxClones == 1

\* removeItem pushes onto accessHistory without limit; calls stop at this length
MaxHistory == 2

NULL == "null"

Faces == {"front", "back", "left", "right", "top", "bottom"}

Position(x, y, z) == [x |-> x, y |-> y, z |-> z]

Dimensions(w, d, h) == [width |-> w, depth |-> d, height |-> h]

\* the containers the model is run on: a flat one, where the faces front, back,
\* left and right can be blocked, and a column, where top and bottom can
ContainerShapes == {Dimensions(2, 2, 1), Dimensions(1, 1, 3)}

\* the items callers hand to addItem; expiryDate is a time stamp in half days
ItemPool ==
  { [id |-> "A", dimensions |-> Dimensions(1, 1, 1), priority |-> "high",
     expiryDate |-> <<2>>, preferredZone |-> <<>>],
    [id |-> "B", dimensions |-> Dimensions(2, 1, 1), priority |-> "medium",
     expiryDate |-> <<3>>, preferredZone |-> <<>>] }

ItemIds == {i.id : i \in ItemPool}

Max(a, b) == IF a >= b THEN a ELSE b

----------------------------------------------------------------------------
(* Orientation *)

Orientation(widthAxis, depthAxis, heightAxis) ==
  [widthAxis |-> widthAxis, depthAxis |-> depthAxis, heightAxis |-> heightAxis]

\* String(n) as the sequence of its character codes: "-" is 45, "0" is 48
RECURSIVE Digits(_)
Digits(n) == IF n < 10 THEN <<48 + n>> ELSE Append(Digits(n \div 10), 48 + (n % 10))

String(n) == IF n < 0 THEN <<45>> \o Digits(0 - n) ELSE Digits(n)

\* s < t for two strings, code unit by code unit
StringLess(s, t) ==
  \/ \E k \in 1 .. Len(s) :
       /\ k <= Len(t)
       /\ s[k] < t[k]
       /\ \A j \in 1 .. k - 1 : s[j] = t[j]
  \/ /\ Len(s) < Len(t)
     /\ \A j \in 1 .. Len(s) : s[j] = t[j]

\* Array.prototype.sort() without a comparator, on the first n elements: the
\* elements are ordered by their strings, and the sort is stable
RECURSIVE DefaultSort(_, _)
DefaultSort(array, n) ==
  IF n = 0 THEN <<>>
  ELSE CHOOSE sorted \in
         { LET at == Cardinality({k \in 1 .. Len(before) :
                                    ~StringLess(String(array[n]), String(before[k]))})
           IN  SubSeq(before, 1, at) \o <<array[n]>>
                 \o SubSeq(before, at + 1, Len(before))
           : before \in {DefaultSort(array, n - 1)} } : TRUE

\* the constructor accepting every triple of axes between 0 and 2
OrientationConstructorChecksRangeOnly(widthAxis, depthAxis, heightAxis) ==
  IF {widthAxis, depthAxis, heightAxis} \subseteq 0 .. 2
  THEN [thrown |-> FALSE, message |-> "",
        orientation |-> << Orientation(widthAxis, depthAxis, heightAxis) >>]
  ELSE [thrown |-> TRUE,
        message |-> "Invalid orientation: must be a permutation of [0,1,2]",
        orientation |-> <<>>]

\* new Orientation(widthAxis, depthAxis, heightAxis) with its validation:
\* returns [thrown, message, orientation]
OrientationConstructor(widthAxis, depthAxis, heightAxis) ==
  LET axes == DefaultSort(<<widthAxis, depthAxis, heightAxis>>, 3)
  IN  IF axes[1] # 0 \/ axes[2] # 1 \/ axes[3] # 2
      THEN [thrown |-> TRUE,
            message |-> "Invalid orientation: must be a permutation of [0,1,2]",
            orientation |-> <<>>]
      ELSE [thrown |-> FALSE, message |-> "",
            orientation |-> << Orientation(widthAxis, depthAxis, heightAxis) >>]

\* getEffectiveDimensions laying each dimension along its axis instead of
\* reading the dimension at the axis
getEffectiveDimensionsAlongAxes(o, originalDimensions) ==
  LET along == [a \in 0 .. 2 |->
                  IF o.widthAxis = a THEN originalDimensions.width
                  ELSE IF o.depthAxis = a THEN originalDimensions.depth
                  ELSE originalDimensions.height]
  IN  Dimensions(along[0], along[1], along[2])

getEffectiveDimensions(o, originalDimensions) ==
  LET dims == <<originalDimensions.width, originalDimensions.depth,
                originalDimensions.height>>
  IN  Dimensions(dims[o.widthAxis + 1], dims[o.depthAxis + 1], dims[o.heightAxis + 1])

getAllOrientations ==
  << Orientation(0, 1, 2), Orientation(0, 2, 1), Orientation(1, 0, 2),
     Orientation(1, 2, 0), Orientation(2, 0, 1), Orientation(2, 1, 0) >>

\* Item.getPossibleOrientations (models/Item.ts) of an item of these dimensions
getPossibleOrientations(this) ==
  << <<this.width, this.depth, this.height>>,
     <<this.width, this.height, this.depth>>,
     <<this.depth, this.width, this.height>>,
     <<this.depth, this.height, this.width>>,
     <<this.height, this.width, this.depth>>,
     <<this.height, this.depth, this.width>> >>

----------------------------------------------------------------------------
(* SpatialGrid: the occupancy grid the two classes extend *)

Cells(dims) ==
  {Position(x, y, z) : x \in 0 .. dims.width - 1, y \in 0 .. dims.depth - 1,
                       z \in 0 .. dims.height - 1}

EmptyGrid(dims) == [c \in Cells(dims) |-> NULL]

Volume(dims) == dims.width * dims.depth * dims.height

isWithinBounds(self, pos) == pos \in DOMAIN self.grid

BoxCells(pos, dims) ==
  {Position(x, y, z) : x \in pos.x .. pos.x + dims.width - 1,
                       y \in pos.y .. pos.y + dims.depth - 1,
                       z \in pos.z .. pos.z + dims.height - 1}

isPositionOccupied(self, pos) == self.grid[pos] # NULL

isSpaceFree(self, pos, dims) ==
  \A c \in BoxCells(pos, dims) : isWithinBounds(self, c) /\ self.grid[c] = NULL

occupySpace(g, pos, dims, id) ==
  [c \in DOMAIN g |-> IF c \in BoxCells(pos, dims) THEN id ELSE g[c]]

releaseSpace(g, id) ==
  [c \in DOMAIN g |-> IF g[c] = id THEN NULL ELSE g[c]]

\* the cells of the loop nest  for x in sx..ex, for y in sy..ey, for z in sz..ez
LoopCells(sx, sy, sz, ex, ey, ez) ==
  LET nx == Max(0, ex - sx + 1)
      ny == Max(0, ey - sy + 1)
      nz == Max(0, ez - sz + 1)
  IN  [k \in 1 .. nx * ny * nz |->
         Position(sx + ((k - 1) \div (ny * nz)),
                  sy + (((k - 1) \div nz) % ny),
                  sz + ((k - 1) % nz))]

\* every position, in row-major (x, y, z) order, where a box of dims is free
findEmptySpaces(self, dims) ==
  LET all == LoopCells(0, 0, 0, self.dimensions.width - 1,
                       self.dimensions.depth - 1, self.dimensions.height - 1)
      free(p) == isSpaceFree(self, p, dims)
  IN  SelectSeq(all, free)

\* s comes before t in lexicographic order; s and t have the same length
LexLess(s, t) ==
  \E k \in 1 .. Len(s) : s[k] < t[k] /\ \A j \in 1 .. k - 1 : s[j] = t[j]

\* the empty boxes of the grid: every cell inside the container and free
EmptyBoxes(self) ==
  {b \in [position : Cells(self.dimensions),
          dimensions : {Dimensions(w, d, h) : w \in 1 .. self.dimensions.width,
                                              d \in 1 .. self.dimensions.depth,
                                              h \in 1 .. self.dimensions.height}] :
     isSpaceFree(self, b.position, b.dimensions)}

\* SpatialGrid.findLargestEmptySpace: the empty box of the greatest volume,
\* ties broken by the smallest (x, y, z), then the largest width, depth and
\* height; null when no cell is free
findLargestEmptySpace(self) ==
  LET boxes == EmptyBoxes(self)
      key(b) == << 0 - Volume(b.dimensions), b.position.x, b.position.y,
                   b.position.z, 0 - b.dimensions.width, 0 - b.dimensions.depth,
                   0 - b.dimensions.height >>
  IN  IF boxes = {} THEN <<>>
      ELSE << CHOOSE a \in boxes : \A b \in boxes \ {a} : LexLess(key(a), key(b)) >>

----------------------------------------------------------------------------
(* The itemsData Map: a sequence of entries in insertion order *)

MapHas(m, id) == \E k \in 1 .. Len(m) : m[k].id = id

MapGet(m, id) == m[CHOOSE k \in 1 .. Len(m) : m[k].id = id]

MapSet(m, id, v) ==
  IF MapHas(m, id)
  THEN [k \in 1 .. Len(m) |-> IF m[k].id = id THEN v ELSE m[k]]
  ELSE Append(m, v)

MapKeys(m) == {m[k].id : k \in 1 .. Len(m)}

----------------------------------------------------------------------------
(* EnhancedSpatialGrid *)

\* { ...itemData, position, orientation, effectiveDimensions }
ItemRecord(itemData, position, orientation, effectiveDimensions) ==
  [id |-> itemData.id, dimensions |-> itemData.dimensions,
   priority |-> itemData.priority, expiryDate |-> itemData.expiryDate,
   preferredZone |-> itemData.preferredZone, position |-> position,
   orientation |-> orientation, effectiveDimensions |-> effectiveDimensions]

\* findValidPlacements walking the positions first and the orientations
\* inside, so that the placements of one orientation are not together
findValidPlacementsPositionsFirst(self, itemDimensions) ==
  LET orientations == getAllOrientations
      all == LoopCells(0, 0, 0, self.dimensions.width - 1,
                       self.dimensions.depth - 1, self.dimensions.height - 1)
      candidates ==
        [n \in 1 .. Len(all) * 6 |->
           [position |-> all[((n - 1) \div 6) + 1],
            orientation |-> orientations[((n - 1) % 6) + 1],
            effectiveDimensions |->
              getEffectiveDimensions(orientations[((n - 1) % 6) + 1],
                                     itemDimensions)]]
      free(c) == isSpaceFree(self, c.position, c.effectiveDimensions)
  IN  SelectSeq(candidates, free)

findValidPlacements(self, itemDimensions) ==
  LET orientations == getAllOrientations
      perOrientation(k) ==
        LET effectiveDimensions == getEffectiveDimensions(orientations[k], itemDimensions)
            emptySpaces == findEmptySpaces(self, effectiveDimensions)
        IN  [n \in 1 .. Len(emptySpaces) |->
               [position |-> emptySpaces[n], orientation |-> orientations[k],
                effectiveDimensions |-> effectiveDimensions]]
  IN  perOrientation(1) \o perOrientation(2) \o perOrientation(3) \o
      perOrientation(4) \o perOrientation(5) \o perOrientation(6)

\* placeItem recording the item's original dimensions instead of the
\* effective ones
placeItemStoresOriginalDims(self, itemData, position, orientation) ==
  LET effectiveDimensions == getEffectiveDimensions(orientation, itemData.dimensions)
  IN  IF ~isSpaceFree(self, position, effectiveDimensions)
      THEN [ok |-> FALSE, self |-> self]
      ELSE [ok |-> TRUE,
            self |-> [self EXCEPT
               !.grid = occupySpace(self.grid, position, effectiveDimensions, itemData.id),
               !.itemsData = MapSet(self.itemsData, itemData.id,
                                ItemRecord(itemData, position, orientation,
                                           itemData.dimensions))]]

\* placeItem writing the catalogue record before it checks that the space is free
placeItemRecordsBeforeCheck(self, itemData, position, orientation) ==
  LET effectiveDimensions == getEffectiveDimensions(orientation, itemData.dimensions)
      recorded == [self EXCEPT
                     !.itemsData = MapSet(self.itemsData, itemData.id,
                                      ItemRecord(itemData, position, orientation,
                                                 effectiveDimensions))]
  IN  IF ~isSpaceFree(self, position, effectiveDimensions)
      THEN [ok |-> FALSE, self |-> recorded]
      ELSE [ok |-> TRUE,
            self |-> [recorded EXCEPT
               !.grid = occupySpace(self.grid, position, effectiveDimensions,
                                    itemData.id)]]

\* returns [ok, self]: the value returned and the grid object afterwards
placeItem(self, itemData, position, orientation) ==
  LET effectiveDimensions == getEffectiveDimensions(orientation, itemData.dimensions)
  IN  IF ~isSpaceFree(self, position, effectiveDimensions)
      THEN [ok |-> FALSE, self |-> self]
      ELSE [ok |-> TRUE,
            self |-> [self EXCEPT
               !.grid = occupySpace(self.grid, position, effectiveDimensions, itemData.id),
               !.itemsData = MapSet(self.itemsData, itemData.id,
                                ItemRecord(itemData, position, orientation,
                                           effectiveDimensions))]]

doItemsCollide(self, itemId1, itemId2) ==
  LET item1 == MapGet(self.itemsData, itemId1)
      item2 == MapGet(self.itemsData, itemId2)
      box(i) == [minX |-> i.position.x, minY |-> i.position.y, minZ |-> i.position.z,
                 maxX |-> i.position.x + i.effectiveDimensions.width - 1,
                 maxY |-> i.position.y + i.effectiveDimensions.depth - 1,
                 maxZ |-> i.position.z + i.effectiveDimensions.height - 1]
      box1 == box(item1)
      box2 == box(item2)
  IN  /\ box1.minX <= box2.maxX /\ box1.maxX >= box2.minX
      /\ box1.minY <= box2.maxY /\ box1.maxY >= box2.minY
      /\ box1.minZ <= box2.maxZ /\ box1.maxZ >= box2.minZ

\* isItemVisible comparing the item's position, not its far side, with the
\* last index for the faces back, right and top
isItemVisibleIgnoresExtent(self, itemId) ==
  LET item == MapGet(self.itemsData, itemId)
      itemPosition == item.position
  IN  CASE self.openFace = "front"  -> itemPosition.y = 0
        [] self.openFace = "back"   -> itemPosition.y = self.dimensions.depth - 1
        [] self.openFace = "left"   -> itemPosition.x = 0
        [] self.openFace = "right"  -> itemPosition.x = self.dimensions.width - 1
        [] self.openFace = "top"    -> itemPosition.z = self.dimensions.height - 1
        [] self.openFace = "bottom" -> itemPosition.z = 0

isItemVisible(self, itemId) ==
  LET item == MapGet(self.itemsData, itemId)
      itemPosition == item.position
      itemDims == item.effectiveDimensions
  IN  CASE self.openFace = "front"  -> itemPosition.y = 0
        [] self.openFace = "back"   ->
             itemPosition.y + itemDims.depth - 1 = self.dimensions.depth - 1
        [] self.openFace = "left"   -> itemPosition.x = 0
        [] self.openFace = "right"  ->
             itemPosition.x + itemDims.width - 1 = self.dimensions.width - 1
        [] self.openFace = "top"    ->
             itemPosition.z + itemDims.height - 1 = self.dimensions.height - 1
        [] self.openFace = "bottom" -> itemPosition.z = 0

\* the ids of seq[1..n] in order of first appearance, skipping null and itemId
RECURSIVE CollectBlockers(_, _, _, _)
CollectBlockers(g, cells, itemId, n) ==
  IF n = 0 THEN <<>>
  ELSE LET before == CollectBlockers(g, cells, itemId, n - 1)
           cellContent == g[cells[n]]
       IN  IF cellContent # NULL /\ cellContent # itemId
              /\ ~(\E k \in 1 .. Len(before) : before[k] = cellContent)
           THEN Append(before, cellContent)
           ELSE before

\* the scan of findBlockingItems over the whole slab between the item and the
\* open face instead of the item's own cross-section
CorridorCellsWholeSlab(self, itemId) ==
  LET item == MapGet(self.itemsData, itemId)
      itemPos == item.position
      itemDims == item.effectiveDimensions
      maxX == self.dimensions.width - 1
      maxY == self.dimensions.depth - 1
      maxZ == self.dimensions.height - 1
  IN  CASE self.openFace = "front" ->
             LoopCells(0, 0, 0, maxX, itemPos.y - 1, maxZ)
        [] self.openFace = "back" ->
             LoopCells(0, itemPos.y + itemDims.depth, 0, maxX, maxY, maxZ)
        [] self.openFace = "left" ->
             LoopCells(0, 0, 0, itemPos.x - 1, maxY, maxZ)
        [] self.openFace = "right" ->
             LoopCells(itemPos.x + itemDims.width, 0, 0, maxX, maxY, maxZ)
        [] self.openFace = "top" ->
             LoopCells(0, 0, itemPos.z + itemDims.height, maxX, maxY, maxZ)
        [] self.openFace = "bottom" ->
             LoopCells(0, 0, 0, maxX, maxY, itemPos.z - 1)

\* the cells checkCellsInPath visits, in the order it visits them
CorridorCells(self, itemId) ==
  LET item == MapGet(self.itemsData, itemId)
      itemPos == item.position
      itemDims == item.effectiveDimensions
  IN  CASE self.openFace = "front" ->
             LoopCells(itemPos.x, 0, itemPos.z,
                       itemPos.x + itemDims.width - 1, itemPos.y - 1,
                       itemPos.z + itemDims.height - 1)
        [] self.openFace = "back" ->
             LoopCells(itemPos.x, itemPos.y + itemDims.depth, itemPos.z,
                       itemPos.x + itemDims.width - 1, self.dimensions.depth - 1,
                       itemPos.z + itemDims.height - 1)
        [] self.openFace = "left" ->
             LoopCells(0, itemPos.y, itemPos.z,
                       itemPos.x - 1, itemPos.y + itemDims.depth - 1,
                       itemPos.z + itemDims.height - 1)
        [] self.openFace = "right" ->
             LoopCells(itemPos.x + itemDims.width, itemPos.y, itemPos.z,
                       self.dimensions.width - 1, itemPos.y + itemDims.depth - 1,
                       itemPos.z + itemDims.height - 1)
        [] self.openFace = "top" ->
             LoopCells(itemPos.x, itemPos.y, itemPos.z + itemDims.height,
                       itemPos.x + itemDims.width - 1, itemPos.y + itemDims.depth - 1,
                       self.dimensions.height - 1)
        [] self.openFace = "bottom" ->
             LoopCells(itemPos.x, itemPos.y, 0,
                       itemPos.x + itemDims.width - 1, itemPos.y + itemDims.depth - 1,
                       itemPos.z - 1)

\* Array.from(blockingItems): the blockers in the order the scan met them
findBlockingItems(self, itemId) ==
  LET cells == CorridorCells(self, itemId)
  IN  CollectBlockers(self.grid, cells, itemId, Len(cells))

\* generateRetrievalPlan that also moves what blocks the first blocker
generateRetrievalPlanAlsoMovesBlockersOfBlocker(self, targetItemId) ==
  IF isItemVisible(self, targetItemId) /\ Len(findBlockingItems(self, targetItemId)) = 0
  THEN [targetItem |-> targetItemId, itemsToMove |-> <<>>,
        steps |-> << <<"retrieve directly", targetItemId>> >>]
  ELSE LET direct == findBlockingItems(self, targetItemId)
           known(id) == id = targetItemId \/ \E k \in 1 .. Len(direct) : direct[k] = id
           unknown(id) == ~known(id)
           blockingItems ==
             IF Len(direct) = 0 THEN direct
             ELSE direct \o SelectSeq(findBlockingItems(self, direct[1]), unknown)
       IN  [targetItem |-> targetItemId,
            itemsToMove |-> blockingItems,
            steps |-> [k \in 1 .. Len(blockingItems) |-> <<"move", blockingItems[k]>>]
                        \o << <<"retrieve", targetItemId>> >>]

generateRetrievalPlan(self, targetItemId) ==
  IF isItemVisible(self, targetItemId) /\ Len(findBlockingItems(self, targetItemId)) = 0
  THEN [targetItem |-> targetItemId, itemsToMove |-> <<>>,
        steps |-> << <<"retrieve directly", targetItemId>> >>]
  ELSE LET blockingItems == findBlockingItems(self, targetItemId)
       IN  [targetItem |-> targetItemId,
            itemsToMove |-> blockingItems,
            steps |-> [k \in 1 .. Len(blockingItems) |-> <<"move", blockingItems[k]>>]
                        \o << <<"retrieve", targetItemId>> >>]

\* isCellVisible taking the item's own cells for obstacles
isCellVisibleCountsOwnCells(self, itemId, x, y, z) ==
  LET clear(pos) == ~isPositionOccupied(self, pos)
  IN  CASE self.openFace = "front" ->
             \A checkY \in 0 .. y - 1 : clear(Position(x, checkY, z))
        [] self.openFace = "back" ->
             \A checkY \in y + 1 .. self.dimensions.depth - 1 : clear(Position(x, checkY, z))
        [] self.openFace = "left" ->
             \A checkX \in 0 .. x - 1 : clear(Position(checkX, y, z))
        [] self.openFace = "right" ->
             \A checkX \in x + 1 .. self.dimensions.width - 1 : clear(Position(checkX, y, z))
        [] self.openFace = "top" ->
             \A checkZ \in z + 1 .. self.dimensions.height - 1 : clear(Position(x, y, checkZ))
        [] self.openFace = "bottom" ->
             \A checkZ \in 0 .. z - 1 : clear(Position(x, y, checkZ))

\* isCellVisible of calculateVisibilityScore: a clear path from the cell to the open face
isCellVisible(self, itemId, x, y, z) ==
  LET clear(pos) == ~(isPositionOccupied(self, pos) /\ self.grid[pos] # itemId)
  IN  CASE self.openFace = "front" ->
             \A checkY \in 0 .. y - 1 : clear(Position(x, checkY, z))
        [] self.openFace = "back" ->
             \A checkY \in y + 1 .. self.dimensions.depth - 1 : clear(Position(x, checkY, z))
        [] self.openFace = "left" ->
             \A checkX \in 0 .. x - 1 : clear(Position(checkX, y, z))
        [] self.openFace = "right" ->
             \A checkX \in x + 1 .. self.dimensions.width - 1 : clear(Position(checkX, y, z))
        [] self.openFace = "top" ->
             \A checkZ \in z + 1 .. self.dimensions.height - 1 : clear(Position(x, y, checkZ))
        [] self.openFace = "bottom" ->
             \A checkZ \in 0 .. z - 1 : clear(Position(x, y, checkZ))

\* a score is the fraction num / den (den > 0), kept exact
Fraction(num, den) == [num |-> num, den |-> den]

FracGreater(a, b) == a.num * b.den > b.num * a.den

FracLess(a, b) == a.num * b.den < b.num * a.den

\* (visibleCells / totalCells) * 100
\* calculateVisibilityScore looking at the cell at the item's position only
calculateVisibilityScoreOfFirstCell(self, itemId) ==
  LET itemPos == MapGet(self.itemsData, itemId).position
  IN  IF isCellVisible(self, itemId, itemPos.x, itemPos.y, itemPos.z)
      THEN Fraction(100, 1) ELSE Fraction(0, 1)

calculateVisibilityScore(self, itemId) ==
  LET item == MapGet(self.itemsData, itemId)
      itemPos == item.position
      itemDims == item.effectiveDimensions
      totalCells == itemDims.width * itemDims.depth * itemDims.height
      visibleCells ==
        Cardinality({c \in BoxCells(itemPos, itemDims) :
                       isCellVisible(self, itemId, c.x, c.y, c.z)})
  IN  Fraction(visibleCells * 100, totalCells)

\* the distance measured from the item's position, not from its near side,
\* for the faces back, right and top
DistanceFromOpenFaceIgnoresExtent(self, item) ==
  LET itemPos == item.position
  IN  CASE self.openFace = "front"  -> itemPos.y
        [] self.openFace = "back"   -> self.dimensions.depth - 1 - itemPos.y
        [] self.openFace = "left"   -> itemPos.x
        [] self.openFace = "right"  -> self.dimensions.width - 1 - itemPos.x
        [] self.openFace = "top"    -> self.dimensions.height - 1 - itemPos.z
        [] self.openFace = "bottom" -> itemPos.z

\* the distance of calculateAccessibilityScore: from the item to the open face
DistanceFromOpenFace(self, item) ==
  LET itemPos == item.position
  IN  CASE self.openFace = "front"  -> itemPos.y
        [] self.openFace = "back"   ->
             self.dimensions.depth - (itemPos.y + item.effectiveDimensions.depth)
        [] self.openFace = "left"   -> itemPos.x
        [] self.openFace = "right"  ->
             self.dimensions.width - (itemPos.x + item.effectiveDimensions.width)
        [] self.openFace = "top"    ->
             self.dimensions.height - (itemPos.z + item.effectiveDimensions.height)
        [] self.openFace = "bottom" -> itemPos.z

\* the maxDistance of calculateAccessibilityScore
MaxDistance(self) ==
  CASE self.openFace \in {"front", "back"} -> self.dimensions.depth
    [] self.openFace \in {"left", "right"} -> self.dimensions.width
    [] self.openFace \in {"top", "bottom"} -> self.dimensions.height

\* calculateAccessibilityScore adding the visibility score itself instead of
\* scaling it to 40 points
calculateAccessibilityScoreUnscaledVisibility(self, itemId) ==
  LET item == MapGet(self.itemsData, itemId)
      visibilityScore == calculateVisibilityScore(self, itemId)
      blockingItems == findBlockingItems(self, itemId)
      blockingComponent == Max(0, 40 - (Len(blockingItems) * 10))
      distance == DistanceFromOpenFace(self, item)
      maxDistance == MaxDistance(self)
      den == 100 * visibilityScore.den * maxDistance
  IN  Fraction(visibilityScore.num * 100 * maxDistance
                 + blockingComponent * den
                 + Max(0, 20 * maxDistance - 20 * distance) * 100 * visibilityScore.den,
               den)

\* calculateAccessibilityScore taking 10 points per blocker without the clamp
\* of the blocking component at 0
calculateAccessibilityScoreUnclamped(self, itemId) ==
  LET item == MapGet(self.itemsData, itemId)
      visibilityScore == calculateVisibilityScore(self, itemId)
      blockingItems == findBlockingItems(self, itemId)
      blockingComponent == 40 - (Len(blockingItems) * 10)
      distance == DistanceFromOpenFace(self, item)
      maxDistance == MaxDistance(self)
      den == 100 * visibilityScore.den * maxDistance
  IN  Fraction(visibilityScore.num * 40 * maxDistance
                 + blockingComponent * den
                 + Max(0, 20 * maxDistance - 20 * distance) * 100 * visibilityScore.den,
               den)

\* visibilityComponent + blockingComponent + distanceComponent, over the
\* common denominator 100 * totalCells * maxDistance
calculateAccessibilityScore(self, itemId) ==
  LET item == MapGet(self.itemsData, itemId)
      visibilityScore == calculateVisibilityScore(self, itemId)
      blockingItems == findBlockingItems(self, itemId)
      blockingComponent == Max(0, 40 - (Len(blockingItems) * 10))
      distance == DistanceFromOpenFace(self, item)
      maxDistance == MaxDistance(self)
      \* visibilityComponent = visibilityScore.num * 40 / (100 * visibilityScore.den)
      \* distanceComponent = Max(0, (20 * maxDistance - 20 * distance) / maxDistance)
      den == 100 * visibilityScore.den * maxDistance
  IN  Fraction(visibilityScore.num * 40 * maxDistance
                 + blockingComponent * den
                 + Max(0, 20 * maxDistance - 20 * distance) * 100 * visibilityScore.den,
               den)

----------------------------------------------------------------------------
(* Container *)

\* new Container(id, dimensions, zone, openFace)
NewContainer(dims, face) ==
  [dimensions |-> dims, openFace |-> face, grid |-> EmptyGrid(dims),
   itemsData |-> <<>>, usedVolume |-> 0,
   priorityItems |-> [high |-> {}, medium |-> {}, low |-> {}],
   itemsByExpiry |-> <<>>, accessHistory |-> <<>>, tempState |-> <<>>]

PriorityClasses == {"high", "medium", "low"}

\* item.expiryDate.toISOString().split('T')[0]: the calendar day of a time stamp
ExpiryStr(expiryDate) == expiryDate[1] \div 2

\* the itemsByExpiry Map as a function from day to set of ids
ExpiryAdd(m, day, id) ==
  IF day \in DOMAIN m
  THEN [m EXCEPT ![day] = @ \cup {id}]
  ELSE [d \in DOMAIN m \cup {day} |-> IF d = day THEN {id} ELSE m[d]]

ExpiryDelete(m, day, id) ==
  IF day \in DOMAIN m
  THEN IF m[day] \ {id} = {}
       THEN [d \in DOMAIN m \ {day} |-> m[d]]
       ELSE [m EXCEPT ![day] = @ \ {id}]
  ELSE m

updateContainerMetricsAfterAdd(self, item) ==
  [self EXCEPT
     !.priorityItems = IF item.priority \in PriorityClasses
                       THEN [@ EXCEPT ![item.priority] = @ \cup {item.id}]
                       ELSE @,
     !.itemsByExpiry = IF item.expiryDate # <<>>
                       THEN ExpiryAdd(@, ExpiryStr(item.expiryDate), item.id)
                       ELSE @,
     !.usedVolume = @ + Volume(item.dimensions)]

\* updateContainerMetricsAfterRemove adding the volume instead of subtracting it
updateMetricsAfterRemoveAddsVolume(self, itemData) ==
  [self EXCEPT
     !.priorityItems = IF itemData.priority \in PriorityClasses
                       THEN [@ EXCEPT ![itemData.priority] = @ \ {itemData.id}]
                       ELSE @,
     !.itemsByExpiry = IF itemData.expiryDate # <<>>
                       THEN ExpiryDelete(@, ExpiryStr(itemData.expiryDate), itemData.id)
                       ELSE @,
     !.usedVolume = @ + Volume(itemData.dimensions)]

updateContainerMetricsAfterRemove(self, itemData) ==
  [self EXCEPT
     !.priorityItems = IF itemData.priority \in PriorityClasses
                       THEN [@ EXCEPT ![itemData.priority] = @ \ {itemData.id}]
                       ELSE @,
     !.itemsByExpiry = IF itemData.expiryDate # <<>>
                       THEN ExpiryDelete(@, ExpiryStr(itemData.expiryDate), itemData.id)
                       ELSE @,
     !.usedVolume = @ - Volume(itemData.dimensions)]

\* the time stamp of an access record plays no part and is left out
recordAccess(self, itemId, operation) ==
  [self EXCEPT !.accessHistory =
     Append(@, [itemId |-> itemId, operation |-> operation])]

isItemAccessible(self, itemId) ==
  isItemVisible(self, itemId) /\ Len(findBlockingItems(self, itemId)) = 0

\* the loop of createTempContainerWithPlacement over itemsData.entries()
RECURSIVE CopyItems(_, _, _)
CopyItems(temp, entries, n) ==
  IF n = 0 THEN temp
  ELSE LET before == CopyItems(temp, entries, n - 1)
       IN  placeItem(before, entries[n], entries[n].position,
                     entries[n].orientation).self

createTempContainerWithPlacement(self, item, position, orientation) ==
  LET tempContainer == NewContainer(self.dimensions, self.openFace)
      copied == CopyItems(tempContainer, self.itemsData, Len(self.itemsData))
  IN  placeItem(copied, item, position, orientation).self

\* returns [thrown, placement]: calculateAccessibilityScore throws when the
\* temporary container does not hold the item; placement is null while no
\* score has exceeded -1
RECURSIVE BestAccessibleLoop(_, _, _, _)
BestAccessibleLoop(self, placements, item, n) ==
  IF n = 0
  THEN [thrown |-> FALSE, bestScore |-> Fraction(-1, 1), bestPlacement |-> <<>>]
  ELSE LET before == BestAccessibleLoop(self, placements, item, n - 1)
           placement == placements[n]
           tempContainer == createTempContainerWithPlacement(
                              self, item, placement.position, placement.orientation)
       IN  IF before.thrown THEN before
           ELSE IF ~MapHas(tempContainer.itemsData, item.id)
           THEN [before EXCEPT !.thrown = TRUE]
           ELSE LET score == calculateAccessibilityScore(tempContainer, item.id)
                IN  IF FracGreater(score, before.bestScore)
                    THEN [thrown |-> FALSE, bestScore |-> score,
                          bestPlacement |-> <<placement>>]
                    ELSE before

findBestAccessiblePlacement(self, placements, item) ==
  BestAccessibleLoop(self, placements, item, Len(placements))

\* exact arithmetic on fractions with a positive denominator

RECURSIVE GCD(_, _)
GCD(a, b) == IF b = 0 THEN a ELSE GCD(b, a % b)

Abs(a) == IF a < 0 THEN 0 - a ELSE a

Reduced(q) ==
  LET g == GCD(Abs(q.num), q.den)
  IN  Fraction(q.num \div g, q.den \div g)

FracAdd(a, b) == Reduced(Fraction(a.num * b.den + b.num * a.den, a.den * b.den))

FracSub(a, b) == Reduced(Fraction(a.num * b.den - b.num * a.den, a.den * b.den))

FracMul(a, b) == Reduced(Fraction(a.num * b.num, a.den * b.den))

FracMin(a, b) == IF FracLess(b, a) THEN b ELSE a

\* a weighted score, the number  rational - sqrt(rootSquare)
WeightedScore(rational, rootSquare) ==
  [rational |-> rational, rootSquare |-> rootSquare]

\* a > b for two weighted scores, decided without taking a root:
\* with D = a.rational - b.rational it asks  D + sqrt(sb) > sqrt(sa)
ScoreGreater(a, b) ==
  LET D == FracSub(a.rational, b.rational)
      sa == a.rootSquare
      sb == b.rootSquare
      DD == FracMul(D, D)
      zero == Fraction(0, 1)
      four == Fraction(4, 1)
  IN  IF D.num >= 0
      THEN LET E == FracSub(FracSub(sa, sb), DD)
           IN  IF E.num < 0 THEN TRUE
               ELSE FracGreater(FracMul(four, FracMul(DD, sb)), FracMul(E, E))
      ELSE IF ~FracGreater(sb, DD) THEN FALSE
      ELSE LET G == FracSub(FracAdd(DD, sb), sa)
           IN  IF G.num <= 0 THEN FALSE
               ELSE FracGreater(FracMul(G, G), FracMul(four, FracMul(DD, sb)))

\* priorityMultiplier in tenths; now is the day of the call and expiryDate a
\* time stamp in half days, so daysUntilExpiry < 30 is expiryDate - 2 now < 60
priorityMultiplier(item, now) ==
  (IF item.priority = "high" THEN 15
   ELSE IF item.priority = "low" THEN 8 ELSE 10)
  + (IF item.expiryDate # <<>> /\ item.expiryDate[1] - 2 * now < 60 THEN 5 ELSE 0)

\* (pos2.x - pos1.x)^2 + (pos2.y - pos1.y)^2 + (pos2.z - pos1.z)^2, the
\* square of calculateDistance
DistanceSquare(pos1, pos2) ==
  (pos2.x - pos1.x) * (pos2.x - pos1.x) + (pos2.y - pos1.y) * (pos2.y - pos1.y)
  + (pos2.z - pos1.z) * (pos2.z - pos1.z)

\* utilizationScore: Math.min(100, (afterVolume / beforeVolume) * 100), and
\* 100 when there is no empty box before the placement
utilizationScore(self, tempContainer) ==
  LET beforeLargestSpace == findLargestEmptySpace(self)
      afterLargestSpace == findLargestEmptySpace(tempContainer)
      afterVolume == IF afterLargestSpace # <<>>
                     THEN Volume(afterLargestSpace[1].dimensions) ELSE 0
  IN  IF beforeLargestSpace = <<>> THEN Fraction(100, 1)
      ELSE FracMin(Fraction(100, 1),
                   Reduced(Fraction(afterVolume * 100,
                                    Volume(beforeLargestSpace[1].dimensions))))

\* the squares of the distances from position to the catalogued items of the
\* item's preferred zone; empty when the item has none
ZoneDistanceSquares(self, item, position) ==
  IF item.preferredZone = <<>> THEN {}
  ELSE {DistanceSquare(position, self.itemsData[k].position) :
          k \in {k \in 1 .. Len(self.itemsData) :
                   self.itemsData[k].preferredZone = item.preferredZone}}

\* one element of scoredPlacements: [thrown, placement, score, accessibilityScore],
\* the score being
\*   (accessibilityScore * 0.5 + utilizationScore * 0.3 + compatibilityScore * 0.2)
\*     * priorityMultiplier
\* with compatibilityScore = 100 - (minDistance / maxDist) * 100, or 50
scorePlacement(self, placement, item, now) ==
  LET tempContainer == createTempContainerWithPlacement(
                         self, item, placement.position, placement.orientation)
      multiplier == Fraction(priorityMultiplier(item, now), 10)
      distances == ZoneDistanceSquares(self, item, placement.position)
      minDistanceSquare == CHOOSE d \in distances : \A e \in distances : d <= e
      maxDistSquare == self.dimensions.width * self.dimensions.width
                       + self.dimensions.depth * self.dimensions.depth
                       + self.dimensions.height * self.dimensions.height
  IN  IF ~MapHas(tempContainer.itemsData, item.id)
      THEN [thrown |-> TRUE, placement |-> placement,
            score |-> WeightedScore(Fraction(0, 1), Fraction(0, 1)),
            accessibilityScore |-> Fraction(0, 1)]
      ELSE LET accessibilityScore ==
                 Reduced(calculateAccessibilityScore(tempContainer, item.id))
               weighted ==
                 FracAdd(FracMul(accessibilityScore, Fraction(1, 2)),
                         FracMul(utilizationScore(self, tempContainer), Fraction(3, 10)))
           IN  [thrown |-> FALSE, placement |-> placement,
                accessibilityScore |-> accessibilityScore,
                score |->
                  IF distances = {}
                  THEN WeightedScore(
                         FracMul(FracAdd(weighted, Fraction(10, 1)), multiplier),
                         Fraction(0, 1))
                  ELSE WeightedScore(
                         FracMul(FracAdd(weighted, Fraction(20, 1)), multiplier),
                         FracMul(FracMul(multiplier, multiplier),
                                 Reduced(Fraction(400 * minDistanceSquare,
                                                  maxDistSquare))))]

\* scoredPlacements.sort((a, b) => b.score - a.score) on the first n
\* elements: the sort is stable, so of two equal scores the earlier stays first
RECURSIVE SortByScore(_, _)
SortByScore(scored, n) ==
  IF n = 0 THEN <<>>
  ELSE CHOOSE sorted \in
         { LET ahead == {k \in 1 .. Len(before) :
                           ~ScoreGreater(scored[n].score, before[k].score)}
               at == Cardinality(ahead)
           IN  SubSeq(before, 1, at) \o <<scored[n]>>
                 \o SubSeq(before, at + 1, Len(before))
           : before \in {SortByScore(scored, n - 1)} } : TRUE

\* placements.map(placement => ...): the first n elements of scoredPlacements
RECURSIVE ScoredPlacements(_, _, _, _, _)
ScoredPlacements(self, placements, item, now, n) ==
  IF n = 0 THEN <<>>
  ELSE Append(ScoredPlacements(self, placements, item, now, n - 1),
              scorePlacement(self, placements[n], item, now))

\* returns [thrown, bestPlacement]: calculateAccessibilityScore throws when
\* the temporary container does not hold the item
recommendPlacement(self, placements, item, now) ==
  CHOOSE recommended \in
    { IF \E n \in 1 .. Len(placements) : scoredPlacements[n].thrown
      THEN [thrown |-> TRUE, bestPlacement |-> <<>>]
      ELSE [thrown |-> FALSE,
            bestPlacement |->
              << SortByScore(scoredPlacements, Len(placements))[1].placement >>]
      : scoredPlacements \in
          {ScoredPlacements(self, placements, item, now, Len(placements))} } : TRUE

\* what a call returns: success / reason as in the source, thrown for an
\* exception, placement, retrievalPlan and item null unless the call sets them
Returned(op, id, success, thrown, reason, placement, plan, item) ==
  [op |-> op, id |-> id, success |-> success, thrown |-> thrown, reason |-> reason,
   placement |-> placement, retrievalPlan |-> plan, item |-> item]

ItemIsValid(item) == item.id # "" /\ item.priority # ""

\* the tail of addItem: place at bestPlacement and update the metrics
PlaceBest(self, item, bestPlacement) ==
  LET placed == placeItem(self, item, bestPlacement.position, bestPlacement.orientation)
  IN  IF placed.ok
      THEN [self |-> updateContainerMetricsAfterAdd(placed.self, item),
            ret |-> Returned("addItem", item.id, TRUE, FALSE, "",
                             << [position |-> bestPlacement.position,
                                 orientation |-> bestPlacement.orientation] >>,
                             <<>>, <<>>)]
      ELSE [self |-> self,
            ret |-> Returned("addItem", item.id, FALSE, FALSE, "Failed to place item",
                             <<>>, <<>>, <<>>)]

\* addItem without the check that the id is already in the container
addItemSkipsDuplicateCheck(self, item, opts, now) ==
  LET thrown(reason) ==
        [self |-> self,
         ret |-> Returned("addItem", item.id, FALSE, TRUE, reason, <<>>, <<>>, <<>>)]
      preferredFree ==
        /\ opts.preferredOrientation # <<>> /\ opts.preferredPosition # <<>>
        /\ isSpaceFree(self, opts.preferredPosition[1],
                       getEffectiveDimensions(opts.preferredOrientation[1],
                                              item.dimensions))
      validPlacements == findValidPlacements(self, item.dimensions)
  IN  IF ~ItemIsValid(item)
      THEN thrown("Item must have id, dimensions, and priority properties")
      ELSE IF preferredFree
      THEN PlaceBest(self, item, [position |-> opts.preferredPosition[1],
                                  orientation |-> opts.preferredOrientation[1]])
      ELSE IF Len(validPlacements) = 0
      THEN [self |-> self,
            ret |-> Returned("addItem", item.id, FALSE, FALSE,
                             "No valid placement found", <<>>, <<>>, <<>>)]
      ELSE IF opts.prioritizeAccessibility
      THEN LET best == findBestAccessiblePlacement(self, validPlacements, item)
           IN  IF best.thrown THEN thrown("not found")
               ELSE IF best.bestPlacement = <<>> THEN thrown("TypeError")
               ELSE PlaceBest(self, item, best.bestPlacement[1])
      ELSE IF opts.useRecommendation
      THEN LET best == recommendPlacement(self, validPlacements, item, now)
           IN  IF best.thrown THEN thrown("not found")
               ELSE PlaceBest(self, item, best.bestPlacement[1])
      ELSE PlaceBest(self, item, validPlacements[1])

\* returns [self, ret]: the container afterwards and the value returned
addItem(self, item, opts, now) ==
  LET thrown(reason) ==
        [self |-> self,
         ret |-> Returned("addItem", item.id, FALSE, TRUE, reason, <<>>, <<>>, <<>>)]
      preferredFree ==
        /\ opts.preferredOrientation # <<>> /\ opts.preferredPosition # <<>>
        /\ isSpaceFree(self, opts.preferredPosition[1],
                       getEffectiveDimensions(opts.preferredOrientation[1],
                                              item.dimensions))
      validPlacements == findValidPlacements(self, item.dimensions)
  IN  IF ~ItemIsValid(item)
      THEN thrown("Item must have id, dimensions, and priority properties")
      ELSE IF MapHas(self.itemsData, item.id)
      THEN thrown("already in the container")
      ELSE IF preferredFree
      THEN PlaceBest(self, item, [position |-> opts.preferredPosition[1],
                                  orientation |-> opts.preferredOrientation[1]])
      ELSE IF Len(validPlacements) = 0
      THEN [self |-> self,
            ret |-> Returned("addItem", item.id, FALSE, FALSE,
                             "No valid placement found", <<>>, <<>>, <<>>)]
      ELSE IF opts.prioritizeAccessibility
      THEN LET best == findBestAccessiblePlacement(self, validPlacements, item)
           IN  IF best.thrown THEN thrown("not found")
               ELSE IF best.bestPlacement = <<>> THEN thrown("TypeError")
               ELSE PlaceBest(self, item, best.bestPlacement[1])
      ELSE IF opts.useRecommendation
      THEN LET best == recommendPlacement(self, validPlacements, item, now)
           IN  IF best.thrown THEN thrown("not found")
               ELSE PlaceBest(self, item, best.bestPlacement[1])
      ELSE PlaceBest(self, item, validPlacements[1])

\* removeItem without the call of releaseSpace
removeItemKeepsCells(self, itemId) ==
  IF ~MapHas(self.itemsData, itemId)
  THEN [self |-> self,
        ret |-> Returned("removeItem", itemId, FALSE, FALSE, "not found",
                         <<>>, <<>>, <<>>)]
  ELSE LET itemData == MapGet(self.itemsData, itemId)
       IN  IF ~isItemAccessible(self, itemId)
           THEN [self |-> self,
                 ret |-> Returned("removeItem", itemId, FALSE, FALSE,
                                  "Item is not directly accessible", <<>>,
                                  <<generateRetrievalPlan(self, itemId)>>, <<>>)]
           ELSE [self |-> recordAccess(
                            updateContainerMetricsAfterRemove(self, itemData),
                            itemId, "remove"),
                 ret |-> Returned("removeItem", itemId, TRUE, FALSE, "",
                                  <<>>, <<>>, <<itemData>>)]

\* removeItem releasing the cells and updating the metrics before it checks
\* that the item is accessible
removeItemReleasesFirst(self, itemId) ==
  IF ~MapHas(self.itemsData, itemId)
  THEN [self |-> self,
        ret |-> Returned("removeItem", itemId, FALSE, FALSE, "not found",
                         <<>>, <<>>, <<>>)]
  ELSE LET itemData == MapGet(self.itemsData, itemId)
           released == updateContainerMetricsAfterRemove(
                         [self EXCEPT !.grid = releaseSpace(self.grid, itemId)],
                         itemData)
       IN  IF ~isItemAccessible(self, itemId)
           THEN [self |-> released,
                 ret |-> Returned("removeItem", itemId, FALSE, FALSE,
                                  "Item is not directly accessible", <<>>,
                                  <<generateRetrievalPlan(self, itemId)>>, <<>>)]
           ELSE [self |-> recordAccess(released, itemId, "remove"),
                 ret |-> Returned("removeItem", itemId, TRUE, FALSE, "",
                                  <<>>, <<>>, <<itemData>>)]

\* returns [self, ret]
removeItem(self, itemId) ==
  IF ~MapHas(self.itemsData, itemId)
  THEN [self |-> self,
        ret |-> Returned("removeItem", itemId, FALSE, FALSE, "not found",
                         <<>>, <<>>, <<>>)]
  ELSE LET itemData == MapGet(self.itemsData, itemId)
       IN  IF ~isItemAccessible(self, itemId)
           THEN [self |-> self,
                 ret |-> Returned("removeItem", itemId, FALSE, FALSE,
                                  "Item is not directly accessible", <<>>,
                                  <<generateRetrievalPlan(self, itemId)>>, <<>>)]
           ELSE [self |-> recordAccess(
                            updateContainerMetricsAfterRemove(
                              [self EXCEPT !.grid = releaseSpace(self.grid, itemId)],
                              itemData),
                            itemId, "remove"),
                 ret |-> Returned("removeItem", itemId, TRUE, FALSE, "",
                                  <<>>, <<>>, <<itemData>>)]

----------------------------------------------------------------------------
(* Container metrics *)

TEMP_OCCUPIED == "TEMP_OCCUPIED"

\* JSON.parse(JSON.stringify(grid)): a copy, cell by cell; a cell holds null
\* or a string, and both come back as they went in
JsonCopy(g) == [c \in DOMAIN g |-> g[c]]

temporarilyOccupySpace(self, position, dims) ==
  [self EXCEPT
     !.tempState = IF @ = <<>> THEN << JsonCopy(self.grid) >> ELSE @,
     !.grid = [c \in DOMAIN self.grid |->
                 IF c \in BoxCells(position, dims) THEN TEMP_OCCUPIED
                 ELSE self.grid[c]]]

\* restoreTemporaryState clearing the snapshot without writing it back
restoreTemporaryStateDropsSnapshot(self) ==
  IF self.tempState # <<>>
  THEN [self EXCEPT !.tempState = <<>>]
  ELSE self

restoreTemporaryState(self) ==
  IF self.tempState # <<>>
  THEN [self EXCEPT !.grid = JsonCopy(self.tempState[1]), !.tempState = <<>>]
  ELSE self

\* the while loop of analyzeSpaceFragmentation; returns [self, emptySpaces]
RECURSIVE FragmentationLoop(_, _, _, _)
FragmentationLoop(self, emptySpaces, totalEmptyVolume, largestSpace) ==
  IF largestSpace = <<>>
     \/ ~(totalEmptyVolume < Volume(self.dimensions) - self.usedVolume)
  THEN [self |-> self, emptySpaces |-> emptySpaces]
  ELSE LET spaceVolume == Volume(largestSpace[1].dimensions)
           found == Append(emptySpaces,
                           [position |-> largestSpace[1].position,
                            dimensions |-> largestSpace[1].dimensions,
                            volume |-> spaceVolume])
           marked == temporarilyOccupySpace(self, largestSpace[1].position,
                                            largestSpace[1].dimensions)
       IN  IF Len(found) > 10
           THEN [self |-> marked, emptySpaces |-> found]
           ELSE FragmentationLoop(marked, found, totalEmptyVolume + spaceVolume,
                                  findLargestEmptySpace(marked))

\* (num / den).toFixed(2), the text of a number, held as [text, hundredths]:
\* 0 / 0 is NaN and gives "NaN", n / 0 gives "Infinity" or "-Infinity", and
\* any other quotient gives its decimal text with two digits, the nearest
\* hundredth and the larger one of two equally near
toFixed2(q) ==
  LET num == IF q.den < 0 THEN 0 - q.num ELSE q.num
      den == IF q.den < 0 THEN 0 - q.den ELSE q.den
  IN  IF den = 0
      THEN [text |-> IF num = 0 THEN "NaN"
                     ELSE IF num > 0 THEN "Infinity" ELSE "-Infinity",
            hundredths |-> 0]
      ELSE [text |-> "decimal",
            hundredths |-> IF num >= 0 THEN (200 * num + den) \div (2 * den)
                           ELSE 0 - ((den - 200 * num) \div (2 * den))]

\* returns [self, ret]
analyzeSpaceFragmentation(self) ==
  LET looped == FragmentationLoop(self, <<>>, 0, findLargestEmptySpace(self))
      emptySpaces == looped.emptySpaces
      restored == restoreTemporaryState(looped.self)
      largestEmptyVolume == IF Len(emptySpaces) > 0 THEN emptySpaces[1].volume ELSE 0
  IN  [self |-> restored,
       ret |-> [fragmentationIndex |->
                  toFixed2(Fraction(largestEmptyVolume,
                                    Volume(self.dimensions) - restored.usedVolume)),
                largestEmptyVolume |-> largestEmptyVolume,
                emptySpaces |-> Len(emptySpaces),
                contiguousSpaces |-> emptySpaces]]

\* score < 40, the threshold for low accessibility
LowAccessibility(self, itemId) ==
  FracLess(calculateAccessibilityScore(self, itemId), Fraction(40, 1))

countHighPriorityLowAccessibility(self) ==
  Cardinality({itemId \in self.priorityItems.high : LowAccessibility(self, itemId)})

calculateAccessibilityMetrics(self) ==
  [lowAccessibilityCount |->
     Cardinality({itemId \in MapKeys(self.itemsData) : LowAccessibility(self, itemId)}),
   highPriorityLowAccess |-> countHighPriorityLowAccessibility(self)]

\* the items whose expiry day is not after today + days, each with its score;
\* the order of the list is left out
findExpiringItems(self, days, today) ==
  LET expiring ==
        UNION {{<<expiryStr, itemId>> : itemId \in self.itemsByExpiry[expiryStr]} :
                 expiryStr \in {d \in DOMAIN self.itemsByExpiry : d <= today + days}}
  IN  {[id |-> entry[2], expiryDate |-> entry[1],
        lowAccess |-> LowAccessibility(self, entry[2])] : entry \in expiring}

\* parseFloat(fragmentationIndex) < 0.5: a comparison with NaN is false
IndexBelowHalf(index) ==
  \/ index.text = "-Infinity"
  \/ index.text = "decimal" /\ index.hundredths < 50

\* what a query returns: thrown for an exception, else the value
Answered(op, thrown, value) ==
  [op |-> op, id |-> "", success |-> ~thrown, thrown |-> thrown, reason |-> "",
   placement |-> <<>>, retrievalPlan |-> <<>>, item |-> <<>>, value |-> value]

\* returns [self, thrown, recommendations].  Container and EnhancedSpatialGrid
\* do not define getUtilizationPercentage; inherited tells whether the grid
\* class they extend provides it, and a call of a missing method throws
generateOptimizationRecommendations(self, today, inherited) ==
  LET accessibility ==
        IF countHighPriorityLowAccessibility(self) > 0
        THEN << [type |-> "accessibility", priority |-> "high"] >> ELSE <<>>
      expiringItems == findExpiringItems(self, 30, today)
      expiry ==
        IF \E item \in expiringItems : item.lowAccess
        THEN << [type |-> "expiry", priority |-> "high"] >> ELSE <<>>
      analysed == analyzeSpaceFragmentation(self)
      fragmented == IndexBelowHalf(analysed.ret.fragmentationIndex)
      utilization == Fraction(self.usedVolume * 100, Volume(self.dimensions))
      fragmentation ==
        IF fragmented /\ FracLess(utilization, Fraction(80, 1))
        THEN << [type |-> "fragmentation", priority |-> "medium"] >> ELSE <<>>
      nearCapacity ==
        IF FracGreater(utilization, Fraction(90, 1))
        THEN << [type |-> "utilization", priority |-> "medium"] >> ELSE <<>>
  IN  IF ~inherited
      THEN [self |-> analysed.self, thrown |-> TRUE, recommendations |-> <<>>]
      ELSE [self |-> analysed.self, thrown |-> FALSE,
            recommendations |-> accessibility \o expiry \o fragmentation
                                  \o nearCapacity]

\* returns [self, thrown, value]
getContainerUtilization(self, today, inherited) ==
  LET accessibilityMetrics == calculateAccessibilityMetrics(self)
      expiringItems == findExpiringItems(self, 30, today)
      analysed == analyzeSpaceFragmentation(self)
      recommended == generateOptimizationRecommendations(analysed.self, today, inherited)
  IN  [self |-> recommended.self, thrown |-> recommended.thrown,
       value |-> IF recommended.thrown THEN <<>>
                 ELSE << [usedVolume |-> self.usedVolume,
                          freeVolume |-> Volume(self.dimensions) - self.usedVolume,
                          itemCount |-> Len(self.itemsData),
                          accessibility |-> accessibilityMetrics,
                          fragmentation |-> analysed.ret,
                          expiring |-> expiringItems,
                          recommendations |-> recommended.recommendations] >>]

----------------------------------------------------------------------------
(* Position and Container of the box model (models/Position.ts,
   models/Container.ts): items as boxes with start and end coordinates *)

Coordinate(width, depth, height) == [width |-> width, depth |-> depth, height |-> height]

\* the Position of a box at cell start with the given dimensions: the end
\* coordinates are one past the last cell
BoxPosition(start, dims) ==
  [startCoordinates |-> Coordinate(start.x, start.y, start.z),
   endCoordinates |-> Coordinate(start.x + dims.width, start.y + dims.depth,
                                 start.z + dims.height)]

overlaps(this, other) ==
  ~ \/ this.endCoordinates.width <= other.startCoordinates.width
    \/ this.startCoordinates.width >= other.endCoordinates.width
    \/ this.endCoordinates.depth <= other.startCoordinates.depth
    \/ this.startCoordinates.depth >= other.endCoordinates.depth
    \/ this.endCoordinates.height <= other.startCoordinates.height
    \/ this.startCoordinates.height >= other.endCoordinates.height

\* new Container(containerId, zone, width, depth, height): items is the Map
\* of item ids to items, here [itemId, position] in insertion order
NewBoxContainer(width, depth, height) ==
  [width |-> width, depth |-> depth, height |-> height, items |-> <<>>]

isPositionInBounds(this, position) ==
  /\ position.startCoordinates.width >= 0
  /\ position.startCoordinates.depth >= 0
  /\ position.startCoordinates.height >= 0
  /\ position.endCoordinates.width <= this.width
  /\ position.endCoordinates.depth <= this.depth
  /\ position.endCoordinates.height <= this.height

positionCollides(this, position, excludeItemId) ==
  \E k \in 1 .. Len(this.items) :
    /\ this.items[k].itemId # excludeItemId
    /\ overlaps(position, this.items[k].position)

\* Container.placeItem of the box model: returns [ok, this]
placeItemBox(this, itemId, position) ==
  IF ~isPositionInBounds(this, position) THEN [ok |-> FALSE, this |-> this]
  ELSE IF positionCollides(this, position, itemId) THEN [ok |-> FALSE, this |-> this]
  ELSE [ok |-> TRUE,
        this |-> [this EXCEPT !.items =
                    IF \E k \in 1 .. Len(this.items) : this.items[k].itemId = itemId
                    THEN [k \in 1 .. Len(this.items) |->
                            IF this.items[k].itemId = itemId
                            THEN [itemId |-> itemId, position |-> position]
                            ELSE this.items[k]]
                    ELSE Append(this.items, [itemId |-> itemId, position |-> position])]]

\* findBlockingItems of the box model taking every item that starts nearer
\* the open face and overlaps in height for a blocker
findBlockingItemsBoxIgnoresWidth(this, targetItemId) ==
  LET found == {k \in 1 .. Len(this.items) : this.items[k].itemId = targetItemId}
  IN  IF found = {} THEN <<>>
      ELSE LET targetPosition == this.items[CHOOSE k \in found : TRUE].position
               blocks(item) ==
                 /\ item.itemId # targetItemId
                 /\ ~ \/ item.position.endCoordinates.height
                           <= targetPosition.startCoordinates.height
                       \/ item.position.startCoordinates.height
                           >= targetPosition.endCoordinates.height
                 /\ item.position.startCoordinates.depth
                      < targetPosition.startCoordinates.depth
           IN  SelectSeq(this.items, blocks)

\* Container.findBlockingItems of the box model: the items, in the order of
\* the Map, that overlap the target in width and in height and start at a
\* smaller depth
findBlockingItemsBox(this, targetItemId) ==
  LET found == {k \in 1 .. Len(this.items) : this.items[k].itemId = targetItemId}
  IN  IF found = {} THEN <<>>
      ELSE LET targetPosition == this.items[CHOOSE k \in found : TRUE].position
               blocks(item) ==
                 /\ item.itemId # targetItemId
                 /\ ~ \/ item.position.endCoordinates.width
                           <= targetPosition.startCoordinates.width
                       \/ item.position.startCoordinates.width
                           >= targetPosition.endCoordinates.width
                 /\ ~ \/ item.position.endCoordinates.height
                           <= targetPosition.startCoordinates.height
                       \/ item.position.startCoordinates.height
                           >= targetPosition.endCoordinates.height
                 /\ item.position.startCoordinates.depth
                      < targetPosition.startCoordinates.depth
           IN  SelectSeq(this.items, blocks)

----------------------------------------------------------------------------
(* Item (models/Item.ts): usage and waste *)

\* new Item(..., expiryDate, usageLimit, ...): the fields that use,
\* checkIfWaste, markAsWaste and clone read and write; expiryDate is a day
NewItem(expiryDate, usageLimit) ==
  [usageCount |-> 0, isWaste |-> FALSE, expiryDate |-> expiryDate,
   usageLimit |-> usageLimit]

hasExpired(this, currentDate) ==
  IF this.expiryDate = <<>> THEN FALSE ELSE currentDate >= this.expiryDate[1]

\* use marking the item as waste one use too late
useCountsPastLimit(this) ==
  IF this.isWaste
  THEN [this |-> this, thrown |-> TRUE, ret |-> FALSE]
  ELSE LET counted == [this EXCEPT !.usageCount = @ + 1]
       IN  IF counted.usageLimit # <<>> /\ counted.usageCount > counted.usageLimit[1]
           THEN [this |-> [counted EXCEPT !.isWaste = TRUE], thrown |-> FALSE,
                 ret |-> TRUE]
           ELSE [this |-> counted, thrown |-> FALSE, ret |-> FALSE]

\* returns [this, thrown, ret]
use(this) ==
  IF this.isWaste
  THEN [this |-> this, thrown |-> TRUE, ret |-> FALSE]
  ELSE LET counted == [this EXCEPT !.usageCount = @ + 1]
       IN  IF counted.usageLimit # <<>> /\ counted.usageCount >= counted.usageLimit[1]
           THEN [this |-> [counted EXCEPT !.isWaste = TRUE], thrown |-> FALSE,
                 ret |-> TRUE]
           ELSE [this |-> counted, thrown |-> FALSE, ret |-> FALSE]

\* returns [this, ret]
checkIfWaste(this, currentDate) ==
  IF this.isWaste THEN [this |-> this, ret |-> TRUE]
  ELSE IF hasExpired(this, currentDate)
  THEN [this |-> [this EXCEPT !.isWaste = TRUE], ret |-> TRUE]
  ELSE IF this.usageLimit # <<>> /\ this.usageCount >= this.usageLimit[1]
  THEN [this |-> [this EXCEPT !.isWaste = TRUE], ret |-> TRUE]
  ELSE [this |-> this, ret |-> FALSE]

markAsWaste(this) == [this EXCEPT !.isWaste = TRUE]

\* clone leaving the copy as the constructor made it
cloneStartsFresh(this) == NewItem(this.expiryDate, this.usageLimit)

\* clone: a new Item of the same constructor arguments, with usageCount and
\* isWaste copied
clone(this) ==
  [NewItem(this.expiryDate, this.usageLimit) EXCEPT
     !.usageCount = this.usageCount, !.isWaste = this.isWaste]

----------------------------------------------------------------------------
(* The Search and Retrieve components (frontend/src/components) and the API
   they call (frontend/src/api.js) *)

\* useState('') for the inputs and useState(null) for result and error;
\* awaiting lists the requests whose handler invocation waits for the response
NewComponent(name) ==
  [name |-> name, itemId |-> "", itemName |-> "", result |-> <<>>, error |-> <<>>,
   awaiting |-> <<>>]

\* value || null
OrNull(value) == IF value = "" THEN <<>> ELSE <<value>>

\* searchItem(itemId, itemName, userId): a parameter is sent when it is truthy
searchItem(itemId, itemName, userId) ==
  [method |-> "GET", url |-> "/api/search", itemId |-> itemId, itemName |-> itemName,
   userId |-> userId]

\* retrieveItem(itemId, userId, timestamp); the timestamp is left out
retrieveItem(itemId, userId) ==
  [method |-> "POST", url |-> "/api/retrieve", itemId |-> <<itemId>>,
   itemName |-> <<>>, userId |-> userId]

\* handleSearch up to its await: returns [component, sent]
handleSearch(c) ==
  LET cleared == [c EXCEPT !.error = <<>>, !.result = <<>>]
  IN  IF c.itemId = "" /\ c.itemName = ""
      THEN [component |-> [cleared EXCEPT
                             !.error = <<"Please enter an Item ID or Name">>],
            sent |-> <<>>]
      ELSE LET request == searchItem(OrNull(c.itemId), OrNull(c.itemName),
                                     <<"astronaut1">>)
           IN  [component |-> [cleared EXCEPT !.awaiting = Append(@, request)],
                sent |-> <<request>>]

\* handleRetrieve up to its await: returns [component, sent]
handleRetrieve(c) ==
  LET cleared == [c EXCEPT !.error = <<>>, !.result = <<>>]
  IN  IF c.itemId = ""
      THEN [component |-> [cleared EXCEPT !.error = <<"Please enter an Item ID">>],
            sent |-> <<>>]
      ELSE LET request == retrieveItem(c.itemId, <<"astronaut1">>)
           IN  [component |-> [cleared EXCEPT !.awaiting = Append(@, request)],
                sent |-> <<request>>]

\* the awaiting list without its k-th request
Settled(awaiting, k) ==
  SubSeq(awaiting, 1, k - 1) \o SubSeq(awaiting, k + 1, Len(awaiting))

\* the rest of a handler after its await resolved: setResult(response.data)
AfterResolve(c, k, data) ==
  [c EXCEPT !.result = <<data>>, !.awaiting = Settled(@, k)]

\* the catch block: setError(err.response?.data?.detail || message)
AfterReject(c, k, detail, message) ==
  [c EXCEPT !.error = IF detail = <<>> THEN <<message>> ELSE detail,
            !.awaiting = Settled(@, k)]

----------------------------------------------------------------------------
(* The state machine: one container and the calls made on it *)

Self ==
  [dimensions |-> dimensions, openFace |-> openFace, grid |-> grid,
   itemsData |-> itemsData, usedVolume |-> usedVolume,
   priorityItems |-> priorityItems, itemsByExpiry |-> itemsByExpiry,
   accessHistory |-> accessHistory, tempState |-> tempState]

\* the state after a call that left the container as new and returned ret
Becomes(new, ret) ==
  /\ grid' = new.grid
  /\ itemsData' = new.itemsData
  /\ usedVolume' = new.usedVolume
  /\ priorityItems' = new.priorityItems
  /\ itemsByExpiry' = new.itemsByExpiry
  /\ accessHistory' = new.accessHistory
  /\ tempState' = new.tempState
  /\ last' = ret
  /\ preGrid' = grid
  /\ UNCHANGED <<dimensions, openFace, itemObjects, pending, component>>

Orientations == {getAllOrientations[k] : k \in 1 .. Len(getAllOrientations)}

\* the orientations callers prefer: one per axis the width may lie along
PreferredOrientations == {Orientation(0, 1, 2), Orientation(1, 0, 2), Orientation(2, 1, 0)}

\* the options of addItem: no preference, or a preferred position and orientation
AddOptions ==
  [prioritizeAccessibility : BOOLEAN, useRecommendation : {FALSE},
   preferredOrientation : {<<>>}, preferredPosition : {<<>>}]
  \cup
  [prioritizeAccessibility : BOOLEAN, useRecommendation : {FALSE},
   preferredOrientation : {<<o>> : o \in PreferredOrientations},
   preferredPosition : {<<p>> : p \in Cells(dimensions)}]

Init ==
  /\ dimensions \in ContainerShapes
  /\ openFace \in Faces
  /\ grid = EmptyGrid(dimensions)
  /\ itemsData = <<>>
  /\ usedVolume = 0
  /\ priorityItems = [high |-> {}, medium |-> {}, low |-> {}]
  /\ itemsByExpiry = <<>>
  /\ accessHistory = <<>>
  /\ tempState = <<>>
  /\ last = Returned("new", "", TRUE, FALSE, "", <<>>, <<>>, <<>>)
  /\ preGrid = grid
  /\ itemObjects = <<>>
  /\ pending = <<>>
  /\ component = <<>>

\* the modes of AddOptions do not read the clock
AddItem ==
  \E item \in ItemPool, opts \in AddOptions :
    \E r \in {addItem(Self, item, opts, 0)} : Becomes(r.self, r.ret)

RemoveItem ==
  \E itemId \in ItemIds :
    \E r \in {removeItem(Self, itemId)} :
      /\ Len(r.self.accessHistory) <= MaxHistory
      /\ Becomes(r.self, r.ret)

Next == AddItem \/ RemoveItem

Spec == Init /\ [][Next]_vars

\* the positions a caller may hand to placeItem: the cells and those one step
\* outside the container
ProbePositions ==
  {Position(x, y, z) : x \in -1 .. dimensions.width, y \in 0 .. dimensions.depth,
                       z \in 0 .. dimensions.height}

\* the positions callers place items at directly: the cells, and one position
\* on either side of the container
PlacePositions ==
  Cells(dimensions) \cup {Position(-1, 0, 0), Position(dimensions.width, 0, 0)}

\* a direct call of placeItem, which Container inherits from EnhancedSpatialGrid
PlaceItem ==
  \E item \in ItemPool, o \in PreferredOrientations, p \in PlacePositions :
    \E r \in {placeItem(Self, item, p, o)} :
      Becomes(r.self,
              Returned("placeItem", item.id, r.ok, FALSE, "", <<>>, <<>>, <<>>))

NextPlace == AddItem \/ RemoveItem \/ PlaceItem

\* the container with callers that also place items directly, run on a row of
\* two cells opened at the front or at the right
InitPlace ==
  /\ dimensions = Dimensions(2, 1, 1)
  /\ openFace \in {"front", "right"}
  /\ grid = EmptyGrid(dimensions)
  /\ itemsData = <<>>
  /\ usedVolume = 0
  /\ priorityItems = [high |-> {}, medium |-> {}, low |-> {}]
  /\ itemsByExpiry = <<>>
  /\ accessHistory = <<>>
  /\ tempState = <<>>
  /\ last = Returned("new", "", TRUE, FALSE, "", <<>>, <<>>, <<>>)
  /\ preGrid = grid
  /\ itemObjects = <<>>
  /\ pending = <<>>
  /\ component = <<>>

SpecPlace == InitPlace /\ [][NextPlace]_vars

\* the day of a call, as a day number: the items of the pool expire on day 1,
\* within 30 days of day 0 and not of day -30
Todays == {0 - 30, 0}

AnalyzeSpaceFragmentation ==
  \E r \in {analyzeSpaceFragmentation(Self)} :
    Becomes(r.self, Answered("analyzeSpaceFragmentation", FALSE, <<r.ret>>))

GetContainerUtilization ==
  \E today \in Todays, inherited \in BOOLEAN :
    \E r \in {getContainerUtilization(Self, today, inherited)} :
      Becomes(r.self, Answered("getContainerUtilization", r.thrown, r.value))

GenerateOptimizationRecommendations ==
  \E today \in Todays, inherited \in BOOLEAN :
    \E r \in {generateOptimizationRecommendations(Self, today, inherited)} :
      Becomes(r.self,
              Answered("generateOptimizationRecommendations", r.thrown,
                       IF r.thrown THEN <<>> ELSE <<r.recommendations>>))

NextMetrics ==
  \/ AddItem
  \/ RemoveItem
  \/ AnalyzeSpaceFragmentation
  \/ GetContainerUtilization
  \/ GenerateOptimizationRecommendations

\* the container with callers that also ask for its metrics, run on the flat
\* container opened at the front or at the back and on rows of three and of
\* six cells opened at the front
InitMetrics ==
  /\ \/ dimensions = Dimensions(2, 2, 1) /\ openFace \in {"front", "back"}
     \/ dimensions = Dimensions(1, 3, 1) /\ openFace = "front"
     \/ dimensions = Dimensions(1, 6, 1) /\ openFace = "front"
  /\ grid = EmptyGrid(dimensions)
  /\ itemsData = <<>>
  /\ usedVolume = 0
  /\ priorityItems = [high |-> {}, medium |-> {}, low |-> {}]
  /\ itemsByExpiry = <<>>
  /\ accessHistory = <<>>
  /\ tempState = <<>>
  /\ last = Returned("new", "", TRUE, FALSE, "", <<>>, <<>>, <<>>)
  /\ preGrid = grid
  /\ itemObjects = <<>>
  /\ pending = <<>>
  /\ component = <<>>

SpecMetrics == InitMetrics /\ [][NextMetrics]_vars

----------------------------------------------------------------------------
(* Ranked placement: callers that let the container recommend the place *)

\* two items of one preferred zone and one of none; the third carries a
\* numeric priority, written as the text of the number
RankedPool ==
  { [id |-> "A", dimensions |-> Dimensions(1, 1, 1), priority |-> "high",
     expiryDate |-> <<2>>, preferredZone |-> <<"crew">>],
    [id |-> "B", dimensions |-> Dimensions(2, 1, 1), priority |-> "medium",
     expiryDate |-> <<3>>, preferredZone |-> <<"crew">>],
    [id |-> "C", dimensions |-> Dimensions(1, 1, 1), priority |-> "80",
     expiryDate |-> <<>>, preferredZone |-> <<>>] }

\* { prioritizeAccessibility: false }: useRecommendation keeps its default
RankedOptions ==
  [prioritizeAccessibility |-> FALSE, useRecommendation |-> TRUE,
   preferredOrientation |-> <<>>, preferredPosition |-> <<>>]

\* a place the caller names: a bar turned along each axis, a cube as it is
StowOptions(item) ==
  [prioritizeAccessibility : {FALSE}, useRecommendation : {FALSE},
   preferredOrientation :
     {<<o>> : o \in IF item.dimensions = Dimensions(1, 1, 1)
                     THEN {Orientation(0, 1, 2)} ELSE PreferredOrientations},
   preferredPosition : {<<p>> : p \in Cells(dimensions)}]

\* the removals callers make between ranked placements
MaxRemovals == 1

\* defaultOptions, the options of a call that names none: accessibility mode
DefaultOptions ==
  [prioritizeAccessibility |-> TRUE, useRecommendation |-> TRUE,
   preferredOrientation |-> <<>>, preferredPosition |-> <<>>]

\* { prioritizeAccessibility: false, useRecommendation: false }: first fit
FirstFitOptions ==
  [prioritizeAccessibility |-> FALSE, useRecommendation |-> FALSE,
   preferredOrientation |-> <<>>, preferredPosition |-> <<>>]

AddItemRanked ==
  \E item \in RankedPool, now \in Todays :
    \E r \in {addItem(Self, item, RankedOptions, now)} : Becomes(r.self, r.ret)

AddItemByMode ==
  \E item \in RankedPool, opts \in {DefaultOptions, FirstFitOptions} :
    \E r \in {addItem(Self, item, opts, 0)} : Becomes(r.self, r.ret)

AddItemStowed ==
  \E item \in RankedPool :
    \E opts \in StowOptions(item) :
      \E r \in {addItem(Self, item, opts, 0)} : Becomes(r.self, r.ret)

RemoveItemRanked ==
  \E itemId \in {item.id : item \in RankedPool} :
    \E r \in {removeItem(Self, itemId)} :
      /\ Len(r.self.accessHistory) <= MaxRemovals
      /\ Becomes(r.self, r.ret)

NextRanked == AddItemRanked \/ AddItemByMode \/ AddItemStowed \/ RemoveItemRanked

InitRanked ==
  /\ \/ dimensions = Dimensions(2, 2, 1) /\ openFace \in {"front", "back"}
     \/ dimensions = Dimensions(1, 4, 1) /\ openFace = "front"
  /\ grid = EmptyGrid(dimensions)
  /\ itemsData = <<>>
  /\ usedVolume = 0
  /\ priorityItems = [high |-> {}, medium |-> {}, low |-> {}]
  /\ itemsByExpiry = <<>>
  /\ accessHistory = <<>>
  /\ tempState = <<>>
  /\ last = Returned("new", "", TRUE, FALSE, "", <<>>, <<>>, <<>>)
  /\ preGrid = grid
  /\ itemObjects = <<>>
  /\ pending = <<>>
  /\ component = <<>>

SpecRanked == InitRanked /\ [][NextRanked]_vars

----------------------------------------------------------------------------
(* The life of an item: callers that use it, check it, mark it and copy it *)

\* the days on which an item expires and on which it is checked
ItemDays == {1, 2}

\* what a call on the k-th item returns
ItemAnswered(op, k, thrown, value) ==
  [op |-> op, id |-> "", success |-> ~thrown, thrown |-> thrown, reason |-> "",
   placement |-> <<>>, retrievalPlan |-> <<>>, item |-> <<k>>, value |-> value]

ItemCall(k, this, ret) ==
  /\ itemObjects' = [itemObjects EXCEPT ![k] = this]
  /\ last' = ret
  /\ UNCHANGED <<dimensions, openFace, grid, itemsData, usedVolume, priorityItems,
                 itemsByExpiry, accessHistory, tempState, preGrid, pending, component>>

\* use() of an item; an item without a limit is used MaxUsageLimit + 1 times
Use ==
  \E k \in 1 .. Len(itemObjects) :
    /\ itemObjects[k].usageCount <= MaxUsageLimit
    /\ \E r \in {use(itemObjects[k])} :
         ItemCall(k, r.this, ItemAnswered("use", k, r.thrown, <<r.ret>>))

CheckIfWaste ==
  \E k \in 1 .. Len(itemObjects), currentDate \in ItemDays :
    \E r \in {checkIfWaste(itemObjects[k], currentDate)} :
      ItemCall(k, r.this, ItemAnswered("checkIfWaste", k, FALSE, <<r.ret>>))

MarkAsWaste ==
  \E k \in 1 .. Len(itemObjects) :
    ItemCall(k, markAsWaste(itemObjects[k]),
             ItemAnswered("markAsWaste", k, FALSE, <<>>))

Clone ==
  /\ Len(itemObjects) <= MaxClones
  /\ \E k \in 1 .. Len(itemObjects) :
       /\ itemObjects' = Append(itemObjects, clone(itemObjects[k]))
       /\ last' = ItemAnswered("clone", k, FALSE, <<>>)
       /\ UNCHANGED <<dimensions, openFace, grid, itemsData, usedVolume,
                      priorityItems, itemsByExpiry, accessHistory, tempState,
                      preGrid, pending, component>>

NextItem == Use \/ CheckIfWaste \/ MarkAsWaste \/ Clone

\* one item, with or without an expiry day and a usage limit, and a
\* container that no call touches; the constructor takes any number as the
\* limit, zero included
InitItem ==
  /\ dimensions = Dimensions(1, 1, 1)
  /\ openFace = "front"
  /\ grid = EmptyGrid(dimensions)
  /\ itemsData = <<>>
  /\ usedVolume = 0
  /\ priorityItems = [high |-> {}, medium |-> {}, low |-> {}]
  /\ itemsByExpiry = <<>>
  /\ accessHistory = <<>>
  /\ tempState = <<>>
  /\ last = Returned("new", "", TRUE, FALSE, "", <<>>, <<>>, <<>>)
  /\ preGrid = grid
  /\ pending = <<>>
  /\ component = <<>>
  /\ \E expiryDate \in {<<>>} \cup {<<d>> : d \in ItemDays},
        usageLimit \in {<<>>} \cup {<<n>> : n \in 0 .. MaxUsageLimit} :
       itemObjects = << NewItem(expiryDate, usageLimit) >>

SpecItem == InitItem /\ [][NextItem]_vars

----------------------------------------------------------------------------
(* Orientations: callers that construct them and apply them to dimensions *)

\* the axes callers pass to the constructor: the three axes, their
\* neighbours, and one whose string sorts before "2"
AxisInputs == (0 - 1 .. 3) \cup {10}

\* the greatest side of the dimensions an orientation is applied to
MaxSide == 3

\* new Orientation(widthAxis, depthAxis, heightAxis)
NewOrientation ==
  /\ \E widthAxis \in AxisInputs, depthAxis \in AxisInputs, heightAxis \in AxisInputs :
       \E r \in {OrientationConstructor(widthAxis, depthAxis, heightAxis)} :
         last' = [Answered("Orientation", r.thrown,
                           [axes |-> <<widthAxis, depthAxis, heightAxis>>,
                            orientation |-> r.orientation])
                    EXCEPT !.reason = r.message]
  /\ UNCHANGED <<dimensions, openFace, grid, itemsData, usedVolume, priorityItems,
                 itemsByExpiry, accessHistory, tempState, preGrid, itemObjects,
                 pending, component>>

\* Orientation.getAllOrientations().map(o => o.getEffectiveDimensions(dims)),
\* next to getPossibleOrientations() of an item of the same dimensions
ApplyAllOrientations ==
  /\ \E w \in 1 .. MaxSide, d \in 1 .. MaxSide, h \in 1 .. MaxSide :
       last' = Answered("getAllOrientations", FALSE,
                        [dims |-> Dimensions(w, d, h),
                         orientations |-> getAllOrientations,
                         effective |->
                           [n \in 1 .. Len(getAllOrientations) |->
                              getEffectiveDimensions(getAllOrientations[n],
                                                     Dimensions(w, d, h))],
                         possible |-> getPossibleOrientations(Dimensions(w, d, h))])
  /\ UNCHANGED <<dimensions, openFace, grid, itemsData, usedVolume, priorityItems,
                 itemsByExpiry, accessHistory, tempState, preGrid, itemObjects,
                 pending, component>>

NextOrientation == NewOrientation \/ ApplyAllOrientations

InitOrientation ==
  /\ dimensions = Dimensions(1, 1, 1)
  /\ openFace = "front"
  /\ grid = EmptyGrid(dimensions)
  /\ itemsData = <<>>
  /\ usedVolume = 0
  /\ priorityItems = [high |-> {}, medium |-> {}, low |-> {}]
  /\ itemsByExpiry = <<>>
  /\ accessHistory = <<>>
  /\ tempState = <<>>
  /\ last = Returned("new", "", TRUE, FALSE, "", <<>>, <<>>, <<>>)
  /\ preGrid = grid
  /\ itemObjects = <<>>
  /\ pending = <<>>
  /\ component = <<>>

SpecOrientation == InitOrientation /\ [][NextOrientation]_vars

----------------------------------------------------------------------------
(* Retrieval: a caller that iterates the retrieval plans until it holds the
   item it wants *)

\* addItem, while no retrieval is under way
StowItem == pending = <<>> /\ AddItem

\* the caller decides to retrieve an item that stands in the container
StartRetrieval ==
  /\ pending = <<>>
  /\ \E targetItemId \in {grid[c] : c \in DOMAIN grid} \ {NULL} :
       pending' = <<targetItemId>>
  /\ UNCHANGED <<dimensions, openFace, grid, itemsData, usedVolume, priorityItems,
                 itemsByExpiry, accessHistory, tempState, last, preGrid,
                 itemObjects, component>>

\* removeItem of the item asked for next: extracted, it leaves the list; refused,
\* the items of the returned plan that are not yet listed are asked for first
RetrieveStep ==
  /\ pending # <<>>
  /\ \E r \in {removeItem(Self, pending[Len(pending)])} :
       /\ grid' = r.self.grid
       /\ itemsData' = r.self.itemsData
       /\ usedVolume' = r.self.usedVolume
       /\ priorityItems' = r.self.priorityItems
       /\ itemsByExpiry' = r.self.itemsByExpiry
       /\ accessHistory' = r.self.accessHistory
       /\ tempState' = r.self.tempState
       /\ last' = r.ret
       /\ preGrid' = grid
       /\ pending' =
            IF r.ret.success THEN SubSeq(pending, 1, Len(pending) - 1)
            ELSE IF r.ret.retrievalPlan = <<>> THEN pending
            ELSE LET listed(id) == \E k \in 1 .. Len(pending) : pending[k] = id
                     unlisted(id) == ~listed(id)
                 IN  pending \o SelectSeq(r.ret.retrievalPlan[1].itemsToMove, unlisted)
  /\ UNCHANGED <<dimensions, openFace, itemObjects, component>>

NextRetrieve == StowItem \/ StartRetrieval \/ RetrieveStep

\* the caller never stops calling while it has an item to extract
SpecRetrieve == Init /\ [][NextRetrieve]_vars /\ WF_vars(RetrieveStep)

----------------------------------------------------------------------------
(* A user of the Search or the Retrieve component, and the backend that
   answers the requests in any order *)

\* the handler invocations that may wait for a response at the same time
MaxAwaiting == 2

\* what the user types
ItemIdInputs == {"", "I1"}

ItemNameInputs == {"", "N1"}

\* response.data of a request that succeeds
ResponseData ==
  {[found |-> TRUE, success |-> TRUE], [found |-> FALSE, success |-> FALSE]}

\* err.response?.data?.detail of a request that fails: absent, or a text
ErrorDetails == {<<>>, <<"Item not found">>}

ComponentBecomes(new, ret) ==
  /\ component' = new
  /\ last' = ret
  /\ UNCHANGED <<dimensions, openFace, grid, itemsData, usedVolume, priorityItems,
                 itemsByExpiry, accessHistory, tempState, preGrid, itemObjects,
                 pending>>

\* onChange of the Item ID input
SetItemId ==
  /\ component.name \in {"Search", "Retrieve"}
  /\ \E value \in ItemIdInputs :
       ComponentBecomes([component EXCEPT !.itemId = value],
                        Answered("setItemId", FALSE, <<>>))

\* onChange of the Item Name input of Search
SetItemName ==
  /\ component.name = "Search"
  /\ \E value \in ItemNameInputs :
       ComponentBecomes([component EXCEPT !.itemName = value],
                        Answered("setItemName", FALSE, <<>>))

\* a click on Search
HandleSearch ==
  /\ component.name = "Search"
  /\ Len(component.awaiting) < MaxAwaiting
  /\ \E r \in {handleSearch(component)} :
       ComponentBecomes(r.component, Answered("handleSearch", FALSE, r.sent))

\* a click on Retrieve
HandleRetrieve ==
  /\ component.name = "Retrieve"
  /\ Len(component.awaiting) < MaxAwaiting
  /\ \E r \in {handleRetrieve(component)} :
       ComponentBecomes(r.component, Answered("handleRetrieve", FALSE, r.sent))

\* the response of one of the requests on the way arrives
Resolves ==
  \E k \in 1 .. Len(component.awaiting), data \in ResponseData :
    ComponentBecomes(AfterResolve(component, k, data),
                     Answered("resolve", FALSE, <<>>))

\* one of the requests on the way fails
Rejects ==
  \E k \in 1 .. Len(component.awaiting), detail \in ErrorDetails :
    ComponentBecomes(
      AfterReject(component, k, detail,
                  IF component.name = "Search"
                  THEN "An error occurred while searching"
                  ELSE "An error occurred while retrieving"),
      Answered("reject", FALSE, <<>>))

NextComponent ==
  SetItemId \/ SetItemName \/ HandleSearch \/ HandleRetrieve \/ Resolves \/ Rejects

InitComponent ==
  /\ dimensions = Dimensions(1, 1, 1)
  /\ openFace = "front"
  /\ grid = EmptyGrid(dimensions)
  /\ itemsData = <<>>
  /\ usedVolume = 0
  /\ priorityItems = [high |-> {}, medium |-> {}, low |-> {}]
  /\ itemsByExpiry = <<>>
  /\ accessHistory = <<>>
  /\ tempState = <<>>
  /\ last = Returned("new", "", TRUE, FALSE, "", <<>>, <<>>, <<>>)
  /\ preGrid = grid
  /\ itemObjects = <<>>
  /\ pending = <<>>
  /\ component \in {NewComponent("Search"), NewComponent("Retrieve")}

SpecComponent == InitComponent /\ [][NextComponent]_vars

----------------------------------------------------------------------------
(* A shelf: one row of cells, with cubes stowed at every second cell *)

\* the cubes a caller stows on the shelf
ShelfCubes == 10

ShelfIds == <<"S1", "S2", "S3", "S4", "S5", "S6", "S7", "S8", "S9", "S10", "S11">>

ShelfCube(k) ==
  [id |-> ShelfIds[k], dimensions |-> Dimensions(1, 1, 1), priority |-> "low",
   expiryDate |-> <<>>, preferredZone |-> <<>>]

\* addItem of the next cube, or of one stowed before, at its own cell: the
\* k-th cube stands at depth 2k - 1
StowCube ==
  \E k \in 1 .. ShelfCubes :
    /\ k <= Len(itemsData) + 1
    /\ \E r \in {addItem(Self, ShelfCube(k),
                          [prioritizeAccessibility |-> FALSE,
                           useRecommendation |-> FALSE,
                           preferredOrientation |-> <<Orientation(0, 1, 2)>>,
                           preferredPosition |-> <<Position(0, 2 * k - 1, 0)>>],
                          0)} :
         Becomes(r.self, r.ret)

NextShelf == StowCube \/ AnalyzeSpaceFragmentation

InitShelf ==
  /\ dimensions = Dimensions(1, 2 * ShelfCubes + 1, 1)
  /\ openFace \in Faces
  /\ grid = EmptyGrid(dimensions)
  /\ itemsData = <<>>
  /\ usedVolume = 0
  /\ priorityItems = [high |-> {}, medium |-> {}, low |-> {}]
  /\ itemsByExpiry = <<>>
  /\ accessHistory = <<>>
  /\ tempState = <<>>
  /\ last = Returned("new", "", TRUE, FALSE, "", <<>>, <<>>, <<>>)
  /\ preGrid = grid
  /\ itemObjects = <<>>
  /\ pending = <<>>
  /\ component = <<>>

SpecShelf == InitShelf /\ [][NextShelf]_vars

----------------------------------------------------------------------------
(* The grid queries, run on packings that callers build with placeItem *)

QueryItem(id, dims) ==
  [id |-> id, dimensions |-> dims, priority |-> "low", expiryDate |-> <<>>,
   preferredZone |-> <<>>]

\* a bar and two cubes: the bar can stand between a cube and the open face
\* with the other cube in front of the bar and beside the first cube's path
ChainPool ==
  << QueryItem("B", Dimensions(2, 1, 1)), QueryItem("A", Dimensions(1, 1, 1)),
     QueryItem("C", Dimensions(1, 1, 1)) >>

\* six cubes: in a row of six cells one of them can stand behind five others
RowPool ==
  << QueryItem("A", Dimensions(1, 1, 1)), QueryItem("B", Dimensions(1, 1, 1)),
     QueryItem("C", Dimensions(1, 1, 1)), QueryItem("D", Dimensions(1, 1, 1)),
     QueryItem("E", Dimensions(1, 1, 1)), QueryItem("F", Dimensions(1, 1, 1)) >>

\* the containers the queries are run on, each with the items stowed in it
QueryScenarios ==
  { [dimensions |-> Dimensions(2, 3, 1), pool |-> ChainPool],
    [dimensions |-> Dimensions(3, 2, 1), pool |-> ChainPool],
    [dimensions |-> Dimensions(2, 1, 3), pool |-> ChainPool],
    [dimensions |-> Dimensions(1, 6, 1), pool |-> RowPool] }

QueryPool == (CHOOSE s \in QueryScenarios : s.dimensions = dimensions).pool

\* callers turn a bar along each axis and leave a cube as it is
StowOrientations(item) ==
  IF item.dimensions = Dimensions(1, 1, 1)
  THEN {Orientation(0, 1, 2)}
  ELSE PreferredOrientations

InitQuery ==
  /\ dimensions \in {s.dimensions : s \in QueryScenarios}
  /\ openFace \in Faces
  /\ grid = EmptyGrid(dimensions)
  /\ itemsData = <<>>
  /\ usedVolume = 0
  /\ priorityItems = [high |-> {}, medium |-> {}, low |-> {}]
  /\ itemsByExpiry = <<>>
  /\ accessHistory = <<>>
  /\ tempState = <<>>
  /\ last = Returned("new", "", TRUE, FALSE, "", <<>>, <<>>, <<>>)
  /\ preGrid = grid
  /\ itemObjects = <<>>
  /\ pending = <<>>
  /\ component = <<>>

\* placeItem of the next item of the pool, as demonstrateBasicOperations does
StowNext ==
  /\ Len(itemsData) < Len(QueryPool)
  /\ \E p \in Cells(dimensions) :
       \E o \in StowOrientations(QueryPool[Len(itemsData) + 1]) :
         \E r \in {placeItem(Self, QueryPool[Len(itemsData) + 1], p, o)} :
           Becomes(r.self,
                   Returned("placeItem", QueryPool[Len(itemsData) + 1].id, r.ok,
                            FALSE, "", <<>>, <<>>, <<>>))

NextQuery == StowNext

SpecQuery == InitQuery /\ [][NextQuery]_vars

----------------------------------------------------------------------------
(* Properties of the container *)

\* the ids that hold at least one cell of the grid
GridIds == {grid[c] : c \in DOMAIN grid} \ {NULL}

\* the cells of the box recorded for a catalogue entry
EntryBox(e) == BoxCells(e.position, e.effectiveDimensions)

\* container.totalVolume
totalVolume == Volume(dimensions)

\* the container fields a call may change
containerState ==
  <<grid, itemsData, usedVolume, priorityItems, itemsByExpiry, accessHistory,
    tempState>>

NotAccessible == "Item is not directly accessible"

\* C1: the grid and the catalogue agree: a cell holds id i iff i is in the
\* catalogue and the cell lies inside the box recorded for i
C1_GridAgreesWithCatalogue ==
  \A c \in DOMAIN grid : \A id \in ItemIds :
    grid[c] = id <=> (MapHas(itemsData, id) /\ c \in EntryBox(MapGet(itemsData, id)))

\* C2: after a removeItem that returned success, no cell holds the id and the
\* id is absent from the catalogue, the priority index and the expiry index
C2_RemovedItemIsGone ==
  (last.op = "removeItem" /\ last.success) =>
    /\ \A c \in DOMAIN grid : grid[c] # last.id
    /\ ~MapHas(itemsData, last.id)
    /\ \A p \in PriorityClasses : last.id \notin priorityItems[p]
    /\ \A d \in DOMAIN itemsByExpiry : last.id \notin itemsByExpiry[d]

\* C3: the boxes recorded for two distinct catalogued ids never collide
C3_CataloguedBoxesDisjoint ==
  \A a \in MapKeys(itemsData), b \in MapKeys(itemsData) :
    a # b => ~doItemsCollide(Self, a, b)

\* the box recorded for a catalogue entry lies inside the container of self
InsideContainer(self, e) ==
  /\ e.position.x >= 0 /\ e.position.y >= 0 /\ e.position.z >= 0
  /\ e.position.x + e.effectiveDimensions.width <= self.dimensions.width
  /\ e.position.y + e.effectiveDimensions.depth <= self.dimensions.depth
  /\ e.position.z + e.effectiveDimensions.height <= self.dimensions.height

\* C4: the box recorded for every catalogued item lies inside the container,
\* and so does the box a placeItem at any position and in any of the six
\* orientations would record
C4_BoxInsideContainer ==
  /\ \A k \in 1 .. Len(itemsData) : InsideContainer(Self, itemsData[k])
  /\ \A item \in ItemPool, o \in Orientations, p \in ProbePositions :
       \E r \in {placeItem(Self, item, p, o)} :
         r.ok => InsideContainer(r.self, MapGet(r.self.itemsData, item.id))

\* an addItem has just placed an item rotated, with effective dimensions that
\* differ from its original ones
C4_Witness ==
  /\ last.op = "addItem" /\ last.success
  /\ LET e == MapGet(itemsData, last.id)
     IN  /\ e.effectiveDimensions # e.dimensions
         /\ e.position # Position(0, 0, 0)

\* C5: usedVolume is the sum of the volumes of the items that occupy grid
\* cells (one cell per unit of volume), so utilization stays within [0, 1]
C5_UsedVolumeIsOccupiedVolume ==
  /\ usedVolume = Cardinality({c \in DOMAIN grid : grid[c] # NULL})
  /\ 0 <= usedVolume /\ usedVolume <= totalVolume

\* C6: utilization (usedVolume / totalVolume) does not fall in an addItem
\* call, does not rise in a removeItem call, and a failed call leaves it equal
C6_UtilizationMonotone ==
  [][ LET before == Fraction(usedVolume * 100, totalVolume)
          after == Fraction(usedVolume' * 100, totalVolume')
      IN  /\ last'.op = "addItem" => ~FracLess(after, before)
          /\ last'.op = "removeItem" => ~FracGreater(after, before)
          /\ ~last'.success => (~FracLess(after, before) /\ ~FracGreater(after, before))
    ]_vars

\* a removeItem has succeeded while another item stays on the grid
C6_Witness ==
  /\ last.op = "removeItem" /\ last.success
  /\ GridIds # {}
  /\ usedVolume < totalVolume

\* C7: a successful addItem(i) followed at once by a successful removeItem(i.id)
\* leaves the grid cell for cell as it was before the addItem
C7_AddThenRemoveRestoresGrid ==
  [][ ( /\ last.op = "addItem" /\ last.success
        /\ last'.op = "removeItem" /\ last'.success /\ last'.id = last.id )
      => grid' = preGrid ]_vars

\* a removeItem has succeeded on the item catalogued last, no other removal
\* came before it, and another item stays on the grid: the item was added and
\* then removed with no successful call between the two
C7_Witness ==
  /\ last.op = "removeItem" /\ last.success
  /\ Len(accessHistory) = 1
  /\ Len(itemsData) = 2 /\ itemsData[2].id = last.id
  /\ Cardinality(GridIds) = 1

\* C8: a removeItem refused as not directly accessible returns failure with
\* the retrieval plan of the id and changes nothing of the container
C8_RefusedRemoveChangesNothing ==
  [][ ( last'.op = "removeItem" /\ last'.reason = NotAccessible )
      => /\ ~last'.success
         /\ last'.retrievalPlan = <<generateRetrievalPlan(Self, last'.id)>>
         /\ UNCHANGED containerState ]_vars

\* a removeItem has been refused with a plan that names a blocker
C8_Witness ==
  /\ last.op = "removeItem" /\ last.reason = NotAccessible
  /\ last.retrievalPlan # <<>>
  /\ last.retrievalPlan[1].itemsToMove # <<>>

\* C9: a removeItem is refused as not directly accessible only when the plan
\* it returns names at least one item to move
C9_RefusedOnlyWhenBlocked ==
  (last.op = "removeItem" /\ last.reason = NotAccessible) =>
    last.retrievalPlan[1].itemsToMove # <<>>

\* C10: a removeItem of an id that holds no cell of the grid (never placed, or
\* placed and removed) returns not found and changes nothing
C10_RemoveOfAbsentIsNotFound ==
  [][ ( last'.op = "removeItem" /\ \A c \in DOMAIN grid : grid[c] # last'.id )
      => ( last'.reason = "not found" /\ UNCHANGED containerState ) ]_vars

AlreadyInContainer == "already in the container"

PoolItem(id) == CHOOSE i \in ItemPool : i.id = id

\* a cell of the box of item at p in orientation o lies outside the container
\* or holds an item
BoxBlocked(item, p, o) ==
  \E c \in BoxCells(p, getEffectiveDimensions(o, item.dimensions)) :
    c \notin Cells(dimensions) \/ grid[c] # NULL

\* no position and orientation is free for item
NoPlacementFree(item) ==
  \A o \in Orientations, p \in Cells(dimensions) : BoxBlocked(item, p, o)

C13_PlanMovesExactlyTheBlockers ==
  \A t \in MapKeys(itemsData) :
    LET plan == generateRetrievalPlan(Self, t)
        blockers == findBlockingItems(Self, t)
        n == Len(plan.itemsToMove)
    IN  /\ plan.targetItem = t
        /\ plan.itemsToMove = blockers
        /\ \A k \in 1 .. n : plan.itemsToMove[k] # t
        /\ Len(plan.steps) = n + 1
        /\ \A k \in 1 .. n : plan.steps[k] = <<"move", blockers[k]>>
        /\ plan.steps[n + 1] \in {<<"retrieve", t>>, <<"retrieve directly", t>>}

\* the elements of a sequence
Range(s) == {s[k] : k \in 1 .. Len(s)}

\* an item is blocked by an item that is itself blocked by a third one, which
\* does not block the first
C13_Witness ==
  \E t \in MapKeys(itemsData), b \in MapKeys(itemsData), x \in MapKeys(itemsData) :
    /\ b \in Range(findBlockingItems(Self, t))
    /\ x \in Range(findBlockingItems(Self, b))
    /\ x # t /\ x \notin Range(findBlockingItems(Self, t))

\* the extraction corridor of a catalogue entry: the cells of the container
\* within the entry's cross-section on the two axes perpendicular to the
\* extraction axis, strictly between the entry's box and the open face
Corridor(e) ==
  LET lo == e.position
      hi == Position(e.position.x + e.effectiveDimensions.width - 1,
                     e.position.y + e.effectiveDimensions.depth - 1,
                     e.position.z + e.effectiveDimensions.height - 1)
      inX(c) == lo.x <= c.x /\ c.x <= hi.x
      inY(c) == lo.y <= c.y /\ c.y <= hi.y
      inZ(c) == lo.z <= c.z /\ c.z <= hi.z
  IN  {c \in Cells(dimensions) :
         CASE openFace = "front"  -> inX(c) /\ inZ(c) /\ c.y < lo.y
           [] openFace = "back"   -> inX(c) /\ inZ(c) /\ c.y > hi.y
           [] openFace = "left"   -> inY(c) /\ inZ(c) /\ c.x < lo.x
           [] openFace = "right"  -> inY(c) /\ inZ(c) /\ c.x > hi.x
           [] openFace = "top"    -> inX(c) /\ inY(c) /\ c.z > hi.z
           [] openFace = "bottom" -> inX(c) /\ inY(c) /\ c.z < lo.z}

\* the entry's box touches the open face
TouchesOpenFace(e) ==
  CASE openFace = "front"  -> e.position.y = 0
    [] openFace = "back"   -> e.position.y + e.effectiveDimensions.depth = dimensions.depth
    [] openFace = "left"   -> e.position.x = 0
    [] openFace = "right"  -> e.position.x + e.effectiveDimensions.width = dimensions.width
    [] openFace = "top"    -> e.position.z + e.effectiveDimensions.height = dimensions.height
    [] openFace = "bottom" -> e.position.z = 0

\* C14: for each open face findBlockingItems(t) returns exactly the ids other
\* than t that hold a cell of t's extraction corridor, each once; the scan
\* reads no cell outside the grid; and for an item that touches the open face
\* the scan visits no cell and the result is empty
C14_BlockersAreTheCorridorItems ==
  \A t \in MapKeys(itemsData) :
    LET e == MapGet(itemsData, t)
        blockers == findBlockingItems(Self, t)
        scanned == CorridorCells(Self, t)
    IN  /\ Range(blockers) = {grid[c] : c \in Corridor(e)} \ {NULL, t}
        /\ Cardinality(Range(blockers)) = Len(blockers)
        /\ \A k \in 1 .. Len(scanned) : scanned[k] \in DOMAIN grid
        /\ TouchesOpenFace(e) => (scanned = <<>> /\ blockers = <<>>)

\* an item is blocked by a second item while a third one, which touches the
\* open face beside the corridor, is not returned
C14_Witness ==
  \E t \in MapKeys(itemsData), b \in MapKeys(itemsData), x \in MapKeys(itemsData) :
    /\ b \in Range(findBlockingItems(Self, t))
    /\ x # t /\ x \notin Range(findBlockingItems(Self, t))
    /\ TouchesOpenFace(MapGet(itemsData, x))
    /\ ~TouchesOpenFace(MapGet(itemsData, t))

\* the cells of the container that lie on the open face
FaceLayer ==
  {c \in Cells(dimensions) :
     CASE openFace = "front"  -> c.y = 0
       [] openFace = "back"   -> c.y = dimensions.depth - 1
       [] openFace = "left"   -> c.x = 0
       [] openFace = "right"  -> c.x = dimensions.width - 1
       [] openFace = "top"    -> c.z = dimensions.height - 1
       [] openFace = "bottom" -> c.z = 0}

\* C15: for each open face isItemVisible(id) is true iff the item's box touches
\* the open face: its least coordinate on the extraction axis is 0 for front,
\* left and bottom, its greatest occupied coordinate is the container's last
\* index on that axis for back, right and top
C15_VisibleIffTouchesOpenFace ==
  \A id \in MapKeys(itemsData) :
    LET e == MapGet(itemsData, id)
    IN  /\ isItemVisible(Self, id) <=> (EntryBox(e) \cap FaceLayer # {})
        /\ isItemVisible(Self, id) <=> TouchesOpenFace(e)

\* a bar that lies along the extraction axis touches the open face with its
\* far end while a second item does not touch it
C15_Witness ==
  /\ openFace \in {"back", "right", "top"}
  /\ \E id \in MapKeys(itemsData), other \in MapKeys(itemsData) :
       /\ isItemVisible(Self, id)
       /\ MapGet(itemsData, id).position \notin FaceLayer
       /\ ~isItemVisible(Self, other)

\* the cells strictly between cell c and the open face along the extraction axis
CellsBefore(c) == Corridor([position |-> c, effectiveDimensions |-> Dimensions(1, 1, 1)])

\* the cells of a catalogue entry's box with nothing but the entry itself
\* between them and the open face
VisibleCellsOf(e) ==
  {c \in EntryBox(e) : \A d \in CellsBefore(c) : grid[d] \in {NULL, e.id}}

\* C16: calculateVisibilityScore(id) is 100 * visibleCells / totalCells over
\* the item's box, a cell being visible iff every cell strictly between it and
\* the open face is empty or holds id; the score lies within [0, 100] and is
\* 100 for an item that is alone in the container
C16_VisibilityScoreIsVisibleShare ==
  \A id \in MapKeys(itemsData) :
    LET e == MapGet(itemsData, id)
        score == calculateVisibilityScore(Self, id)
    IN  /\ score.den > 0
        /\ score.num * Cardinality(EntryBox(e))
             = 100 * Cardinality(VisibleCellsOf(e)) * score.den
        /\ 0 <= score.num /\ score.num <= 100 * score.den
        /\ GridIds = {id} => score.num = 100 * score.den

\* a bar that lies across the open face with half of its cells behind a cube
C16_Witness ==
  \E id \in MapKeys(itemsData) :
    LET score == calculateVisibilityScore(Self, id)
    IN  score.num * 2 = 100 * score.den

\* C17: in every reachable state of the container, calculateAccessibilityScore
\* of every id in the catalogue lies within [0, 100]
C17_AccessibilityScoreInRange ==
  \A id \in MapKeys(itemsData) :
    LET score == calculateAccessibilityScore(Self, id)
    IN  /\ score.den > 0
        /\ 0 <= score.num /\ score.num <= 100 * score.den

\* the catalogue holds an item that scores 100 and one behind five blockers
C17_Witness ==
  \E a \in MapKeys(itemsData), b \in MapKeys(itemsData) :
    LET high == calculateAccessibilityScore(Self, a)
    IN  high.num = 100 * high.den /\ Len(findBlockingItems(Self, b)) = 5

\* the seed scenario of demonstrateBasicOperations: ITEM001 of 3x2x2 placed at
\* (0, 0, 0) in orientation (0, 1, 2) in a 10x8x5 container opened at the front
SeedGrid ==
  placeItem(NewContainer(Dimensions(10, 8, 5), "front"),
            QueryItem("ITEM001", Dimensions(3, 2, 2)), Position(0, 0, 0),
            Orientation(0, 1, 2)).self

SeedScore == calculateAccessibilityScore(SeedGrid, "ITEM001")

\* C18: for every open face a placed item that touches the open face and has
\* no blocking items scores at least 80 for accessibility; the source gives it
\* exactly 100, as it does to ITEM001 in the seed scenario
C18_OpenFaceItemScoresFull ==
  /\ \A id \in MapKeys(itemsData) :
       LET e == MapGet(itemsData, id)
           score == calculateAccessibilityScore(Self, id)
       IN  (TouchesOpenFace(e) /\ findBlockingItems(Self, id) = <<>>)
             => /\ score.num >= 80 * score.den
                /\ score.num = 100 * score.den
  /\ isItemVisible(SeedGrid, "ITEM001")
  /\ findBlockingItems(SeedGrid, "ITEM001") = <<>>
  /\ SeedScore.num = 100 * SeedScore.den

\* the bar touches the open face with nothing in front of it while two other
\* items are in the container
C18_Witness ==
  /\ Len(itemsData) = 3
  /\ \E id \in MapKeys(itemsData) :
       LET e == MapGet(itemsData, id)
       IN  /\ TouchesOpenFace(e) /\ findBlockingItems(Self, id) = <<>>
           /\ Volume(e.effectiveDimensions) = 2

\* the ids other than the entry's own that hold a cell of its corridor
BlockerIds(e) == {grid[c] : c \in Corridor(e)} \ {NULL, e.id}

\* the number of cell layers between the entry's near face and the open face
Gap(e) ==
  LET counts == {Cardinality(CellsBefore(c)) : c \in EntryBox(e)}
  IN  CHOOSE g \in counts : \A h \in counts : g <= h

\* the container's dimension on the extraction axis
AxisLength == Volume(dimensions) \div Cardinality(FaceLayer)

\* 0.4 * visibilityScore + max(0, 40 - 10 * |blockers|)
\*   + max(0, 20 - 20 * distance / axisLength), as a fraction
ExpectedScore(e) ==
  LET total == Cardinality(EntryBox(e))
      visible == Cardinality(VisibleCellsOf(e))
      n == Cardinality(BlockerIds(e))
  IN  Fraction(40 * visible * AxisLength
                 + Max(0, 40 - 10 * n) * total * AxisLength
                 + Max(0, 20 * AxisLength - 20 * Gap(e)) * total,
               total * AxisLength)

\* the accessibility score of every catalogued id is the sum of the three terms
ScoreIsSumOfComponents ==
  \A id \in MapKeys(itemsData) :
    LET expected == ExpectedScore(MapGet(itemsData, id))
        score == calculateAccessibilityScore(Self, id)
    IN  score.num * expected.den = expected.num * score.den

\* the number of visible cells of the catalogue entry of id
VisibleCount(id) == Cardinality(VisibleCellsOf(MapGet(itemsData, id)))

\* the container as the call leaves it
SelfAfter ==
  [dimensions |-> dimensions', openFace |-> openFace', grid |-> grid',
   itemsData |-> itemsData', usedVolume |-> usedVolume',
   priorityItems |-> priorityItems', itemsByExpiry |-> itemsByExpiry',
   accessHistory |-> accessHistory', tempState |-> tempState']

\* a call adds a blocker to id, which then has at most four
GainsBlocker(id) ==
  \E n \in {Len(findBlockingItems(Self, id))}, after \in {SelfAfter} :
    n + 1 <= 4 /\ Len(findBlockingItems(after, id)) = n + 1

\* C19 as stated: the score is the sum of the three terms, and each blocker up
\* to four lowers the score by exactly 10
C19_EachBlockerLowersScoreByTen ==
  /\ []ScoreIsSumOfComponents
  /\ [][ \A id \in MapKeys(itemsData) :
           GainsBlocker(id) =>
             \E s \in {SelfAfter} :
               \E before \in {calculateAccessibilityScore(Self, id)},
                  after \in {calculateAccessibilityScore(s, id)} :
                 before.num * after.den - after.num * before.den
                   = 10 * before.den * after.den
       ]_vars

\* C19 amended: the score is the sum of the three terms; each blocker up to
\* four lowers the blocking term by exactly 10, so that the score falls by 10
\* plus 0.4 times the fall of the visibility score, and with four or more
\* blockers the blocking term is 0
C19_EachBlockerLowersBlockingTermByTen ==
  /\ []ScoreIsSumOfComponents
  /\ [](\A id \in MapKeys(itemsData) :
          Len(findBlockingItems(Self, id)) >= 4 =>
            \E e \in {MapGet(itemsData, id)},
               score \in {calculateAccessibilityScore(Self, id)} :
              score.num * Cardinality(EntryBox(e)) * AxisLength
                = score.den * ( 40 * VisibleCount(id) * AxisLength
                                + Max(0, 20 * AxisLength - 20 * Gap(e))
                                    * Cardinality(EntryBox(e)) ))
  /\ [][ \A id \in MapKeys(itemsData) :
           GainsBlocker(id) =>
             \E s \in {SelfAfter} :
               \E before \in {calculateAccessibilityScore(Self, id)},
                  after \in {calculateAccessibilityScore(s, id)},
                  total \in {Cardinality(EntryBox(MapGet(itemsData, id)))},
                  hidden \in {VisibleCount(id) - VisibleCount(id)'} :
                 /\ hidden >= 0
                 /\ (before.num * after.den - after.num * before.den) * total
                      = (10 * total + 40 * hidden) * before.den * after.den
       ]_vars

\* an item has five blockers and a visibility score of 0
C19_Witness ==
  \E id \in MapKeys(itemsData) :
    /\ Len(findBlockingItems(Self, id)) = 5
    /\ calculateVisibilityScore(Self, id).num = 0

\* the queries that analyse the free space
MetricsQueries ==
  {"analyzeSpaceFragmentation", "getContainerUtilization",
   "generateOptimizationRecommendations"}

\* C20: analyzeSpaceFragmentation is a pure query, and so are
\* getContainerUtilization and generateOptimizationRecommendations, which call
\* it: the grid after the call is cell for cell the grid before it, no cell
\* holds the temporary marker, the saved snapshot is cleared, and nothing else
\* of the container changes
C20_FragmentationAnalysisIsPure ==
  /\ [](tempState = <<>> /\ \A c \in DOMAIN grid : grid[c] # TEMP_OCCUPIED)
  /\ [][ last'.op \in MetricsQueries
           => /\ DOMAIN grid' = DOMAIN grid
              /\ \A c \in DOMAIN grid : grid'[c] = grid[c]
              /\ tempState' = <<>>
              /\ UNCHANGED containerState ]_vars

\* analyzeSpaceFragmentation has marked a first empty box to find a second
\* one, in a container that holds an item
C20_Witness ==
  /\ last.op = "analyzeSpaceFragmentation"
  /\ last.value[1].emptySpaces >= 2
  /\ GridIds # {}

\* C21: analyzeSpaceFragmentation collects at most ten empty boxes: the
\* returned contiguousSpaces list never has more than ten entries
C21_AtMostTenBoxes ==
  last.op = "analyzeSpaceFragmentation"
    => Len(last.value[1].contiguousSpaces) <= 10

\* the cells of the grid that hold nothing
FreeCells == {c \in DOMAIN grid : grid[c] = NULL}

\* the volume of the largest empty box of the grid, 0 when no cell is free
LargestFreeVolume ==
  IF EmptyBoxes(Self) = {} THEN 0
  ELSE CHOOSE v \in {Volume(b.dimensions) : b \in EmptyBoxes(Self)} :
         \A b \in EmptyBoxes(Self) : Volume(b.dimensions) <= v

\* C22: the fragmentation index that analyzeSpaceFragmentation reports is a
\* number within [0, 1], the volume of the largest empty box divided by the
\* total empty volume (to two decimals), in every container state
C22_IndexIsLargestShareOfFree ==
  last.op = "analyzeSpaceFragmentation"
    => LET index == last.value[1].fragmentationIndex
       IN  /\ index.text = "decimal"
           /\ index.hundredths \in 0 .. 100
           /\ Cardinality(FreeCells) > 0
                => index = toFixed2(Fraction(LargestFreeVolume,
                                             Cardinality(FreeCells)))

\* the dimensions findValidPlacements is asked about: every box of edges 1
\* and 2, and the box that fills the container
ProbeDimensions ==
  {Dimensions(w, d, h) : w \in 1 .. 2, d \in 1 .. 2, h \in 1 .. 2} \cup {dimensions}

\* the place of an orientation in getAllOrientations
OrientationIndex(o) ==
  CHOOSE k \in 1 .. Len(getAllOrientations) : getAllOrientations[k] = o

\* the place of a cell in the row-major (x, y, z) order of the grid
RowMajor(p) ==
  (p.x * dimensions.depth + p.y) * dimensions.height + p.z

\* the box lies inside the container and none of its cells holds an item
BoxInsideAndEmpty(pos, dims) ==
  /\ pos.x >= 0 /\ pos.y >= 0 /\ pos.z >= 0
  /\ pos.x + dims.width <= dimensions.width
  /\ pos.y + dims.depth <= dimensions.depth
  /\ pos.z + dims.height <= dimensions.height
  /\ BoxCells(pos, dims) \cap (DOMAIN grid \ FreeCells) = {}

\* the three edges of dims taken in the order the orientation names
Turned(o, dims) ==
  LET edge(axis) == IF axis = 0 THEN dims.width
                    ELSE IF axis = 1 THEN dims.depth ELSE dims.height
  IN  Dimensions(edge(o.widthAxis), edge(o.depthAxis), edge(o.heightAxis))

FeasibleInOrder(dims) ==
  LET placements == findValidPlacements(Self, dims)
  IN  /\ \A n \in 1 .. Len(placements) :
            /\ placements[n].orientation \in Orientations
            /\ placements[n].effectiveDimensions
                 = Turned(placements[n].orientation, dims)
            /\ BoxInsideAndEmpty(placements[n].position,
                                 placements[n].effectiveDimensions)
      /\ \A o \in Orientations, pos \in Cells(dimensions) :
            BoxInsideAndEmpty(pos, Turned(o, dims))
              => \E n \in 1 .. Len(placements) :
                   placements[n].position = pos /\ placements[n].orientation = o
      /\ \A m, n \in 1 .. Len(placements) :
            m < n =>
              \/ OrientationIndex(placements[m].orientation)
                   < OrientationIndex(placements[n].orientation)
              \/ /\ placements[m].orientation = placements[n].orientation
                 /\ RowMajor(placements[m].position)
                      < RowMajor(placements[n].position)

\* C23: findValidPlacements returns exactly the feasible placements in
\* order: each entry carries the turned dimensions and a box inside the
\* container that is empty, every such (position, orientation) is returned,
\* the entries go by orientation in getAllOrientations order and by position
\* in row-major order inside one orientation; on an empty container and for
\* the container's own dimensions there is one entry per orientation that
\* leaves the dimensions as they are
C23_ValidPlacementsAreTheFeasibleOnesInOrder ==
  /\ \A dims \in ProbeDimensions : FeasibleInOrder(dims)
  /\ FreeCells = DOMAIN grid
       => LET placements == findValidPlacements(Self, dimensions)
          IN  /\ Len(placements)
                   = Cardinality({o \in Orientations : Turned(o, dimensions) = dimensions})
              /\ \A n \in 1 .. Len(placements) :
                    /\ placements[n].position = Position(0, 0, 0)
                    /\ Turned(placements[n].orientation, dimensions) = dimensions
              /\ \A o \in Orientations :
                    Turned(o, dimensions) = dimensions
                      => \E n \in 1 .. Len(placements) : placements[n].orientation = o

\* a container that holds items, where a bar fits in two orientations at
\* several positions each, and does not fit at others
C23_Witness ==
  /\ GridIds # {}
  /\ LET placements == findValidPlacements(Self, Dimensions(2, 1, 1))
     IN  /\ \E m, n \in 1 .. Len(placements) :
               /\ m < n
               /\ placements[m].orientation = placements[n].orientation
         /\ \E m, n \in 1 .. Len(placements) :
               placements[m].orientation # placements[n].orientation
         /\ \E pos \in FreeCells :
               \A n \in 1 .. Len(placements) : placements[n].position # pos

\* the catalogue entries of the items that stand in the grid
PlacedEntries ==
  {itemsData[k] : k \in {k \in 1 .. Len(itemsData) : itemsData[k].id \in GridIds}}

\* the container with the item painted at a candidate
WithCandidate(item, c) == placeItem(Self, item, c.position, c.orientation).self

\* A of a candidate: the accessibility score the item has once it stands there
CandidateA(item, c) ==
  Reduced(calculateAccessibilityScore(WithCandidate(item, c), item.id))

\* F of a candidate: min(100, 100 * V1 / V0), 100 when no box is empty before
CandidateF(item, c) ==
  LET V0 == LargestFreeVolume
      after == WithCandidate(item, c)
      V1 == IF EmptyBoxes(after) = {} THEN 0
            ELSE CHOOSE v \in {Volume(b.dimensions) : b \in EmptyBoxes(after)} :
                   \A b \in EmptyBoxes(after) : Volume(b.dimensions) <= v
  IN  IF V0 = 0 THEN Fraction(100, 1)
      ELSE FracMin(Fraction(100, 1), Reduced(Fraction(100 * V1, V0)))

\* the placed items that share the item's preferred zone
ZoneMates(item) ==
  IF item.preferredZone = <<>> THEN {}
  ELSE {e \in PlacedEntries : e.preferredZone = item.preferredZone}

\* S / mu of a candidate, 0.5 A + 0.3 F + 0.2 Z, with Z = 50 without a zone
\* mate and 100 - 100 d / D with one, d the least distance to a mate
CandidateS(item, c) ==
  LET weighted == FracAdd(FracMul(CandidateA(item, c), Fraction(1, 2)),
                          FracMul(CandidateF(item, c), Fraction(3, 10)))
      squares == {DistanceSquare(c.position, e.position) : e \in ZoneMates(item)}
      least == CHOOSE d \in squares : \A e \in squares : d <= e
      D2 == dimensions.width * dimensions.width + dimensions.depth * dimensions.depth
            + dimensions.height * dimensions.height
  IN  IF squares = {}
      THEN WeightedScore(FracAdd(weighted, Fraction(10, 1)), Fraction(0, 1))
      ELSE WeightedScore(FracAdd(weighted, Fraction(20, 1)),
                         Reduced(Fraction(400 * least, D2)))

\* the place of the chosen placement among the candidates
ChosenIndex(candidates, placement) ==
  CHOOSE n \in 1 .. Len(candidates) :
    /\ candidates[n].position = placement.position
    /\ candidates[n].orientation = placement.orientation

\* a ranked addItem of the item places it at the earliest candidate of the
\* greatest S
RankedPicksBest(item, now) ==
  LET candidates == findValidPlacements(Self, item.dimensions)
      r == addItem(Self, item, RankedOptions, now)
  IN  (~MapHas(itemsData, item.id) /\ Len(candidates) > 0)
        => /\ r.ret.success
           /\ LET n == ChosenIndex(candidates, r.ret.placement[1])
                   best == CandidateS(item, candidates[n])
              IN  /\ \A m \in 1 .. Len(candidates) :
                        ~ScoreGreater(CandidateS(item, candidates[m]), best)
                  /\ \A m \in 1 .. n - 1 :
                        ScoreGreater(best, CandidateS(item, candidates[m]))

\* C24: in ranked mode the chosen candidate has the greatest weighted score
\* S = mu * (0.5 A + 0.3 F + 0.2 Z) of all candidates, with F = min(100,
\* 100 * V1 / V0), or 100 with no empty box before, and Z = 50 for an item
\* with no preferred zone or with no placed item of its zone; of candidates
\* of equal S the earliest in findValidPlacements order is chosen
C24_RankedModePicksGreatestScore ==
  \A item \in RankedPool, now \in Todays : RankedPicksBest(item, now)

\* the same, in the states where every catalogued item stands in the grid
RankedModePicksGreatestScoreWhileNothingRemoved ==
  (\A k \in 1 .. Len(itemsData) : itemsData[k].id \in GridIds)
    => C24_RankedModePicksGreatestScore

\* an addItem of the item in accessibility mode places it at the earliest
\* candidate of the greatest A
AccessibilityModePicksBest(item) ==
  LET candidates == findValidPlacements(Self, item.dimensions)
      r == addItem(Self, item, DefaultOptions, 0)
  IN  (~MapHas(itemsData, item.id) /\ Len(candidates) > 0)
        => /\ r.ret.success
           /\ LET n == ChosenIndex(candidates, r.ret.placement[1])
                   best == CandidateA(item, candidates[n])
              IN  /\ \A m \in 1 .. Len(candidates) :
                        ~FracGreater(CandidateA(item, candidates[m]), best)
                  /\ \A m \in 1 .. n - 1 :
                        FracGreater(best, CandidateA(item, candidates[m]))

\* an addItem of the item in first-fit mode places it at the first candidate
FirstFitPicksFirst(item) ==
  LET candidates == findValidPlacements(Self, item.dimensions)
      r == addItem(Self, item, FirstFitOptions, 0)
  IN  (~MapHas(itemsData, item.id) /\ Len(candidates) > 0)
        => /\ r.ret.success
           /\ r.ret.placement[1].position = candidates[1].position
           /\ r.ret.placement[1].orientation = candidates[1].orientation

\* C25: each placement mode returns what it promises: accessibility mode
\* places the item at a candidate whose would-be accessibility score is at
\* least that of every other candidate, the earliest such one, ranked mode
\* at the earliest candidate of the greatest weighted score, and first-fit
\* mode at the first candidate of findValidPlacements
C25_EachModePlacesAsPromised ==
  \A item \in RankedPool :
    /\ AccessibilityModePicksBest(item)
    /\ \A now \in Todays : RankedPicksBest(item, now)
    /\ FirstFitPicksFirst(item)

\* the same for accessibility mode and first fit, in the states where every
\* catalogued item stands in the grid
ModesPlaceAsPromisedWhileNothingRemoved ==
  (\A k \in 1 .. Len(itemsData) : itemsData[k].id \in GridIds)
    => \A item \in RankedPool :
         AccessibilityModePicksBest(item) /\ FirstFitPicksFirst(item)

\* first fit alone, in every state
FirstFitPlacesFirstCandidate == \A item \in RankedPool : FirstFitPicksFirst(item)

\* the item is of high priority and expires within 30 days of the day now
HighPriorityExpiringSoon(item, now) ==
  /\ item.priority = "high"
  /\ item.expiryDate # <<>>
  /\ item.expiryDate[1] - 2 * now < 60
  /\ item.expiryDate[1] - 2 * now >= 0

\* a ranked addItem of the item leaves it with an accessibility score that
\* is not below the one it has at the first candidate
RankedNotBelowFirstFit(item, now) ==
  LET candidates == findValidPlacements(Self, item.dimensions)
      r == addItem(Self, item, RankedOptions, now)
  IN  (~MapHas(itemsData, item.id) /\ Len(candidates) > 0)
        => /\ r.ret.success
           /\ ~FracLess(Reduced(calculateAccessibilityScore(r.self, item.id)),
                        CandidateA(item, candidates[1]))

\* C26: in every container state with a feasible placement, a high-priority
\* item that expires within 30 days and is placed in ranked mode ends with
\* an accessibility score at least as high as the one it would have at the
\* first-fit position of the same state
C26_RankedAtLeastAsAccessibleAsFirstFit ==
  \A item \in RankedPool, now \in Todays :
    HighPriorityExpiringSoon(item, now) => RankedNotBelowFirstFit(item, now)

\* the numeric priorities of the pool, by their text
NumericPriorities == {[text |-> "80", number |-> 80]}

\* the tier of a numeric priority: >= 67 high, >= 34 medium, else low
TierOf(number) ==
  IF number >= 67 THEN "high" ELSE IF number >= 34 THEN "medium" ELSE "low"

\* the multiplier of a tier, in tenths
TierMultiplier(tier) ==
  IF tier = "high" THEN 15 ELSE IF tier = "medium" THEN 10 ELSE 8

\* C27: an integer priority in 1..100 is treated as its tier, >= 67 as high
\* (multiplier 1.5, high index), 34..66 as medium (1.0, medium index) and
\* 1..33 as low (0.8, low index), by the ranker's multiplier and by the
\* container's priority index
C27_NumericPriorityTreatedAsTier ==
  \A item \in RankedPool, p \in NumericPriorities :
    (item.priority = p.text /\ item.id \in GridIds)
      => /\ item.id \in priorityItems[TierOf(p.number)]
         /\ \A now \in Todays :
              priorityMultiplier(item, now)
                = TierMultiplier(TierOf(p.number))
                  + (IF item.expiryDate # <<>> /\ item.expiryDate[1] - 2 * now < 60
                     THEN 5 ELSE 0)

\* the catalogued ids of a priority class
CataloguedWithPriority(p) ==
  {itemsData[k].id : k \in {k \in 1 .. Len(itemsData) : itemsData[k].priority = p}}

\* the catalogued ids that expire on a calendar day
CataloguedExpiringOn(day) ==
  {itemsData[k].id :
     k \in {k \in 1 .. Len(itemsData) :
              /\ itemsData[k].expiryDate # <<>>
              /\ ExpiryStr(itemsData[k].expiryDate) = day}}

\* C28: after every sequence of addItem and removeItem the indexes agree with
\* the catalogue: the priority index of a class is the set of catalogued ids
\* of that class, the three sizes add up to the size of the catalogue, the
\* expiry index maps each day to the catalogued ids that expire on it, and
\* no index holds an empty set for a day or an id that is not catalogued
C28_IndexesAgreeWithCatalogue ==
  /\ \A p \in PriorityClasses : priorityItems[p] = CataloguedWithPriority(p)
  /\ Cardinality(priorityItems.high) + Cardinality(priorityItems.medium)
       + Cardinality(priorityItems.low) = Len(itemsData)
  /\ \A day \in DOMAIN itemsByExpiry :
        itemsByExpiry[day] # {} /\ itemsByExpiry[day] = CataloguedExpiringOn(day)
  /\ \A k \in 1 .. Len(itemsData) :
        itemsData[k].expiryDate # <<>>
          => ExpiryStr(itemsData[k].expiryDate) \in DOMAIN itemsByExpiry

\* the same with the catalogue read as the items that stand in the grid
IndexesAgreeWithPlacedItems ==
  /\ \A p \in PriorityClasses :
        priorityItems[p] = {e.id : e \in {e \in PlacedEntries : e.priority = p}}
  /\ \A day \in DOMAIN itemsByExpiry :
        /\ itemsByExpiry[day] # {}
        /\ itemsByExpiry[day]
             = {e.id : e \in {e \in PlacedEntries :
                                e.expiryDate # <<>> /\ ExpiryStr(e.expiryDate) = day}}
  /\ \A e \in PlacedEntries :
        e.expiryDate # <<>> => ExpiryStr(e.expiryDate) \in DOMAIN itemsByExpiry

\* the share of the container's volume that placed items fill, in percent
UtilizationPercentage ==
  Fraction((Cardinality(DOMAIN grid) - Cardinality(FreeCells)) * 100,
           Cardinality(DOMAIN grid))

\* a placed item of the set has an accessibility score below 40
SomeLowAccessibility(entries) ==
  \E e \in entries :
    FracLess(calculateAccessibilityScore(Self, e.id), Fraction(40, 1))

\* the advisory tags whose condition holds on the day today
ExpectedTags(today) ==
  {tag \in {[type |-> "accessibility", priority |-> "high"],
            [type |-> "expiry", priority |-> "high"],
            [type |-> "fragmentation", priority |-> "medium"],
            [type |-> "utilization", priority |-> "medium"]} :
     \/ /\ tag.type = "accessibility"
        /\ SomeLowAccessibility({e \in PlacedEntries : e.priority = "high"})
     \/ /\ tag.type = "expiry"
        /\ SomeLowAccessibility({e \in PlacedEntries :
                                   /\ e.expiryDate # <<>>
                                   /\ ExpiryStr(e.expiryDate) <= today + 30})
     \/ /\ tag.type = "fragmentation"
        /\ FreeCells # {}
        /\ 2 * LargestFreeVolume < Cardinality(FreeCells)
        /\ FracLess(UtilizationPercentage, Fraction(80, 1))
     \/ /\ tag.type = "utilization"
        /\ FracGreater(UtilizationPercentage, Fraction(90, 1))}

\* C29: generateOptimizationRecommendations emits exactly the advisory tags
\* whose condition holds: {accessibility, high} iff a placed high-priority
\* item has accessibility below 40, {expiry, high} iff an item that expires
\* within 30 days has accessibility below 40, {fragmentation, medium} iff the
\* fragmentation index is below 0.5 and utilization below 80%,
\* {utilization, medium} iff utilization is above 90%, and no other tag
C29_RecommendationsAreTheTagsThatHold ==
  \A today \in Todays :
    LET r == generateOptimizationRecommendations(Self, today, TRUE)
    IN  /\ ~r.thrown
        /\ {r.recommendations[n] : n \in 1 .. Len(r.recommendations)}
             = ExpectedTags(today)
        /\ Len(r.recommendations) = Cardinality(ExpectedTags(today))

\* the same, in the states where every catalogued item stands in the grid
RecommendationsAreTheTagsThatHoldWhileNothingRemoved ==
  (\A k \in 1 .. Len(itemsData) : itemsData[k].id \in GridIds)
    => C29_RecommendationsAreTheTagsThatHold

C31_UsageCountWithinLimit ==
  \A k \in 1 .. Len(itemObjects) :
    itemObjects[k].usageLimit # <<>>
      => /\ itemObjects[k].usageCount <= itemObjects[k].usageLimit[1]
         /\ itemObjects[k].usageCount = itemObjects[k].usageLimit[1]
              => itemObjects[k].isWaste

\* the same for the items whose limit is at least one
UsageCountWithinPositiveLimit ==
  \A k \in 1 .. Len(itemObjects) :
    (itemObjects[k].usageLimit # <<>> /\ itemObjects[k].usageLimit[1] >= 1)
      => /\ itemObjects[k].usageCount <= itemObjects[k].usageLimit[1]
         /\ itemObjects[k].usageCount = itemObjects[k].usageLimit[1]
              => itemObjects[k].isWaste

\* C32: waste is permanent: an item that is waste is waste after every call,
\* and the clone of a waste item is waste
C32_WasteIsPermanent ==
  [][ /\ \A k \in 1 .. Len(itemObjects) :
           itemObjects[k].isWaste
             => (k <= Len(itemObjects') /\ itemObjects'[k].isWaste)
      /\ last'.op = "clone"
           => /\ Len(itemObjects') = Len(itemObjects) + 1
              /\ itemObjects[last'.item[1]].isWaste
                   => itemObjects'[Len(itemObjects')].isWaste ]_vars

\* a waste item was cloned, and a call was made on it after it became waste
C32_Witness ==
  /\ last.op = "clone"
  /\ Len(itemObjects) = 2
  /\ itemObjects[last.item[1]].isWaste
  /\ itemObjects[2].isWaste
  /\ itemObjects[1].usageLimit # <<>>
  /\ itemObjects[1].usageCount = itemObjects[1].usageLimit[1]

\* the triples that are a permutation of {0, 1, 2}
IsPermutationOfAxes(axes) ==
  /\ {axes[1], axes[2], axes[3]} = 0 .. 2

\* C33: constructing an Orientation succeeds if and only if the three axes
\* are a permutation of {0, 1, 2}; every other triple is rejected with the
\* 'Invalid orientation' error
C33_OrientationAcceptsExactlyPermutations ==
  last.op = "Orientation"
    => /\ ~last.thrown <=> IsPermutationOfAxes(last.value.axes)
       /\ ~last.thrown
            => last.value.orientation
                 = << Orientation(last.value.axes[1], last.value.axes[2],
                                  last.value.axes[3]) >>
       /\ last.thrown
            => /\ last.reason = "Invalid orientation: must be a permutation of [0,1,2]"
               /\ last.value.orientation = <<>>

\* a triple with a repeated axis was rejected
C33_Witness ==
  /\ last.op = "Orientation"
  /\ last.thrown
  /\ last.value.axes = <<0, 1, 1>>

TempContainerIsGridWithCandidate ==
  \A item \in {i \in ItemPool : ~MapHas(itemsData, i.id)} :
    \A c \in {findValidPlacements(Self, item.dimensions)[n] :
                n \in 1 .. Len(findValidPlacements(Self, item.dimensions))} :
      \E tempContainer \in {createTempContainerWithPlacement(
                               Self, item, c.position, c.orientation)} :
        /\ tempContainer.grid
             = occupySpace(grid, c.position, c.effectiveDimensions, item.id)
        /\ MapHas(tempContainer.itemsData, item.id)

\* C35: when addItem scores a candidate, the temporary container has the
\* grid of the real container with only the candidate's box painted with the
\* new item's id, in every reachable state, those after removeItem included;
\* the candidate is always placed in the copy, so scoring never throws
C35_TempContainerIsGridWithCandidate ==
  /\ TempContainerIsGridWithCandidate
  /\ last.op = "addItem" => ~(last.thrown /\ last.reason = "not found")

\* the same, in the states where every catalogued item stands in the grid
TempContainerIsGridWithCandidateWhileNothingRemoved ==
  (\A k \in 1 .. Len(itemsData) : itemsData[k].id \in GridIds)
    => TempContainerIsGridWithCandidate

\* C36: an item can be placed again after it has been extracted: an addItem
\* of an item that does not stand in the grid is not rejected as 'already in
\* the container', and succeeds whenever a valid placement exists
C36_ExtractedItemCanBePlacedAgain ==
  [][ (last'.op = "addItem" /\ last'.id \notin GridIds)
        => /\ last'.reason # "already in the container"
           /\ (\E item \in ItemPool :
                 /\ item.id = last'.id
                 /\ findValidPlacements(Self, item.dimensions) # <<>>)
                => last'.success ]_vars

\* the same for the items the catalogue does not hold: no such addItem is
\* rejected as a duplicate
NewItemIsNotRejectedAsDuplicate ==
  [][ (last'.op = "addItem" /\ ~MapHas(itemsData, last'.id))
        => last'.reason # "already in the container" ]_vars

\* C37: every placed item is eventually retrievable by iterating retrieval
\* plans: a caller that calls removeItem on the target and, when refused, on
\* the items of the returned plans, eventually extracts the target
C37_EveryRetrievalEnds ==
  (pending # <<>>) ~> (pending = <<>>)

\* the same for the targets that touch the open face
RetrievalOfVisibleItemsEnds ==
  (pending # <<>> /\ isItemVisible(Self, pending[1])) ~> (pending = <<>>)

\* C38: for every placed item the visibility score is 100 if and only if
\* findBlockingItems returns no item
C38_FullyVisibleIffNoBlockers ==
  \A id \in GridIds :
    \E score \in {calculateVisibilityScore(Self, id)} :
      (score.num = 100 * score.den) <=> (findBlockingItems(Self, id) = <<>>)

\* a placed item is hidden in part by one blocker, and another placed item is
\* fully visible and has none
C38_Witness ==
  /\ \E id \in GridIds :
       \E score \in {calculateVisibilityScore(Self, id)} :
         /\ 0 < score.num
         /\ score.num < 100 * score.den
         /\ Len(findBlockingItems(Self, id)) = 1
  /\ \E id \in GridIds :
       /\ calculateVisibilityScore(Self, id).num
            = 100 * calculateVisibilityScore(Self, id).den
       /\ findBlockingItems(Self, id) = <<>>

\* the container of the box model after placeItem of the first n placed
\* items of the grid, each as the box of its cells
RECURSIVE BoxContainerOf(_)
BoxContainerOf(n) ==
  IF n = 0
  THEN NewBoxContainer(dimensions.width, dimensions.depth, dimensions.height)
  ELSE IF itemsData[n].id \notin GridIds THEN BoxContainerOf(n - 1)
  ELSE placeItemBox(BoxContainerOf(n - 1), itemsData[n].id,
                    BoxPosition(itemsData[n].position,
                                itemsData[n].effectiveDimensions)).this

\* C39: for a front-open container the box model and the grid model agree on
\* blockers: for the same placed boxes, findBlockingItems of models/Container
\* returns the ids that the corridor scan of EnhancedSpatialGrid returns
C39_BoxAndGridModelsAgreeOnBlockers ==
  openFace = "front"
    => \E box \in {BoxContainerOf(Len(itemsData))} :
         /\ {box.items[k].itemId : k \in 1 .. Len(box.items)} = GridIds
         /\ \A target \in GridIds :
              \E boxBlockers \in {findBlockingItemsBox(box, target)},
                 gridBlockers \in {findBlockingItems(Self, target)} :
                {boxBlockers[k].itemId : k \in 1 .. Len(boxBlockers)}
                  = {gridBlockers[k] : k \in 1 .. Len(gridBlockers)}

\* a target behind one blocker, with a third item nearer the open face in
\* another column
C39_Witness ==
  /\ openFace = "front"
  /\ \E target \in GridIds :
       /\ Len(findBlockingItems(Self, target)) = 1
       /\ Len(findBlockingItemsBox(BoxContainerOf(Len(itemsData)), target)) = 1
       /\ \E other \in GridIds \ {target} :
            /\ MapGet(itemsData, other).position.y < MapGet(itemsData, target).position.y
            /\ \A k \in 1 .. Len(findBlockingItems(Self, target)) :
                 findBlockingItems(Self, target)[k] # other

\* a click with the required input empty sends no request
NoRequestWhenInputEmpty ==
  [][ /\ (last'.op = "handleSearch" /\ component.itemId = "" /\ component.itemName = "")
           => (last'.value = <<>> /\ component'.awaiting = component.awaiting)
      /\ (last'.op = "handleRetrieve" /\ component.itemId = "")
           => (last'.value = <<>> /\ component'.awaiting = component.awaiting) ]_vars

\* the error message and the result are not both set
NeverErrorAndResult == ~(component.result # <<>> /\ component.error # <<>>)

\* C40: in the Search and Retrieve components, under any interleaving of
\* handler invocations and their responses, the error message and the result
\* are never both set, and no request is sent when the required input is empty
C40_NeverErrorAndResultAndNoEmptyRequest ==
  []NeverErrorAndResult /\ NoRequestWhenInputEmpty

\* the user who waits for the response before clicking again
SpecComponentOneAtATime ==
  InitComponent
    /\ [][ NextComponent
            /\ (last'.op \in {"handleSearch", "handleRetrieve"}
                  => component.awaiting = <<>>) ]_vars

====
